---- MODULE Spec2Model ----
(***************************************************************************)
(* Model of the JNI marshalling layer of jline3's native library:          *)
(*   src/native/src/main/native/clibrary.c   (POSIX: termios, winsize)     *)
(*   src/native/src/main/native/kernel32.c   (Windows console structures)  *)
(*   src/native/src/main/native/jlinenative.c                              *)
(*                                                                         *)
(* Spec        the per-kind field-ID caches (XFc) under concurrent first   *)
(*             use: cacheXFields / getXFields / setXFields run by several  *)
(*             threads, statement by statement, over a shared memory with  *)
(*             per-thread store buffers (stores become visible to other    *)
(*             threads in any order unless a barrier separates them).      *)
(* SpecTermios getTermiosFields followed by setTermiosFields, by one       *)
(*             thread, over the widths of struct termios of each platform. *)
(* SpecInputRecord  getINPUT_RECORDFields followed by                      *)
(*             setINPUT_RECORDFields, by one thread, over the bytes of the *)
(*             native INPUT_RECORD and its Event union.                    *)
(* SpecCSBI    getCONSOLE_SCREEN_BUFFER_INFOFields followed by             *)
(*             setCONSOLE_SCREEN_BUFFER_INFOFields, by one thread.         *)
(* SpecFacade  the native methods of the facade (openpty, ioctl,           *)
(*             tcgetattr, tcsetattr, the console functions), statement by  *)
(*             statement: acquisitions, the OS call, releases and write-   *)
(*             backs, the return.                                          *)
(* SpecIsatty  the decision procedure of isatty on Windows, over the calls  *)
(*             of one process.                                             *)
(* SpecDescriptor  newFileDescriptor and newRedirectPipe of jlinenative.c, *)
(*             JNI call by JNI call, over the calls of one process.        *)
(* SpecPty     openpty, isatty, ioctl with a WinSize and ttyname, called   *)
(*             one after the other over a kernel that keeps a pty.         *)
(* SpecMemmove INPUT_RECORD.memmove: the copy into the local record and    *)
(*             the write-back.                                             *)
(* SpecShorts  getXFields followed by setXFields for the structures made   *)
(*             of 16-bit members, over every value of a short.             *)
(***************************************************************************)
EXTENDS Integers, Sequences, FiniteSets, TLC

(***************************************************************************)
(* Bounds of the model.                                                    *)
(***************************************************************************)
NThreads == 2
MaxCalls == 2
MaxPending == 2
MaxLoadCalls == 2
MaxDescriptorCalls == 2

Threads == 1..NThreads

(***************************************************************************)
(* The C null pointer / zero-initialised static storage.                   *)
(***************************************************************************)
NULL == 0

\* The kernel before openpty: no master, no slave, no window size.
NoPty == [master |-> -1, slave |-> -1, winsize |-> <<>>]

(***************************************************************************)
(* The structure kinds that own an XFc cache, and the jfieldID members of  *)
(* each X_FID_CACHE in declaration (= resolution) order.                   *)
(***************************************************************************)
Kinds ==
    { "Termios", "WinSize", "CHAR_INFO", "CONSOLE_SCREEN_BUFFER_INFO", "COORD",
      "FOCUS_EVENT_RECORD", "INPUT_RECORD", "KEY_EVENT_RECORD",
      "MENU_EVENT_RECORD", "MOUSE_EVENT_RECORD", "SMALL_RECT",
      "WINDOW_BUFFER_SIZE_RECORD" }

CacheFields(k) ==
    CASE k = "Termios" ->
           <<"c_iflag", "c_oflag", "c_cflag", "c_lflag", "c_cc", "c_ispeed", "c_ospeed">>
      [] k = "WinSize" -> <<"ws_row", "ws_col", "ws_xpixel", "ws_ypixel">>
      [] k = "CHAR_INFO" -> <<"attributes", "unicodeChar">>
      [] k = "CONSOLE_SCREEN_BUFFER_INFO" ->
           <<"size", "cursorPosition", "attributes", "window", "maximumWindowSize">>
      [] k = "COORD" -> <<"x", "y">>
      [] k = "FOCUS_EVENT_RECORD" -> <<"setFocus">>
      [] k = "INPUT_RECORD" ->
           <<"eventType", "keyEvent", "mouseEvent", "windowBufferSizeEvent",
             "menuEvent", "focusEvent">>
      [] k = "KEY_EVENT_RECORD" ->
           <<"keyDown", "repeatCount", "keyCode", "scanCode", "uchar", "controlKeyState">>
      [] k = "MENU_EVENT_RECORD" -> <<"commandId">>
      [] k = "MOUSE_EVENT_RECORD" ->
           <<"mousePosition", "buttonState", "controlKeyState", "eventFlags">>
      [] k = "SMALL_RECT" -> <<"left", "top", "right", "bottom">>
      [] k = "WINDOW_BUFFER_SIZE_RECORD" -> <<"size">>

Range(s) == { s[i] : i \in 1..Len(s) }

FieldNames(k) == Range(CacheFields(k))

\* The members of one X_FID_CACHE: int cached; jclass clazz; jfieldID ...;
CacheLocs(k) == {"cached", "clazz"} \cup FieldNames(k)

\* The managed class of a kind either declares every expected field or
\* lacks one of them; the first and the last resolved stand for any of them
\* (cacheXFields treats all members alike).
MissingCandidates(k) == { CacheFields(k)[1], CacheFields(k)[Len(CacheFields(k))] }

VARIABLES
    kind,        \* the structure kind whose cache XFc the threads contend on
    missing,     \* fields the managed class of that kind does not declare
    mem,         \* XFc as held in shared memory: member -> value
    stored,      \* members of XFc some store has reached shared memory for
    buf,         \* per thread: its store buffer, member -> value still to be written
    pc,          \* per thread: position in cacheXFields / getXFields / setXFields
    op,          \* per thread: the function it is in ("none" between calls)
    idx,         \* per thread: index of the next GetFieldID of cacheXFields
    calls,       \* per thread: calls made so far
    exc,         \* per thread: a Java exception is pending in the current call
    startedSet,  \* per thread: the flag read as set when the current call began
    localRef,    \* per thread: the jclass local reference of its current call is live
    nres,        \* per thread: runs of cacheXFields that reached its last line
    late,        \* a store to XFc was executed after the flag was set in memory
    plat,        \* the platform the library is built for
    obj,         \* the managed object a getXFields reads
    native,      \* the native structure lpStruct points to
    out,         \* the managed object a setXFields writes
    mpc,         \* position in a marshalling round trip
    jexc,        \* the functions that returned with a Java exception pending
    cachedKinds, \* marshalling: the kinds whose XFc.cached is set
    fn,          \* the native method invoked, its arguments and its environment
    fpc,         \* position in that native method
    lparg,       \* its local pointers lparg0, lparg1, ...: argument -> pointer
    rc,          \* its local rc
    events,      \* what it has done so far, in order
    hModuleNtDll,   \* kernel32.c: the module handle of ntdll.dll (0 until loaded)
    NtQueryObject,  \* kernel32.c: the address of NtQueryObject (0 until looked up)
    loadCalls,      \* the calls of LoadLibraryW and of GetProcAddress the process has made
    kernel          \* POSIX: the pseudo-terminal the process has opened, as the kernel holds it

vars == <<kind, missing, mem, stored, buf, pc, op, idx, calls, exc, startedSet,
          localRef, nres, late, plat, obj, native, out, mpc, jexc, cachedKinds,
          fn, fpc, lparg, rc, events, hModuleNtDll, NtQueryObject, loadCalls, kernel>>

\* What outlasts a call: the globals of isatty of kernel32.c, and the kernel.
ivars == <<hModuleNtDll, NtQueryObject, loadCalls, kernel>>

\* The variables of a native method of the facade.
fvars == <<fn, fpc, lparg, rc, events, hModuleNtDll, NtQueryObject, loadCalls, kernel>>

\* No native method of the facade is under way.
FacadeOff ==
    /\ fn = "none"
    /\ fpc = "off"
    /\ lparg = <<>>
    /\ rc = 0
    /\ events = <<>>
    /\ hModuleNtDll = 0
    /\ NtQueryObject = 0
    /\ loadCalls = [LoadLibraryW |-> 0, GetProcAddress |-> 0]
    /\ kernel = NoPty

\* The variables of a marshalling round trip, and those of the threads
\* contending on a cache.
mvars == <<plat, obj, native, out, mpc, jexc, cachedKinds>>

cvars == <<kind, missing, mem, stored, buf, pc, op, idx, calls, exc, startedSet,
           localRef, nres, late>>

Ops == {"cacheFields", "getFields", "setFields"}

EmptyBuf == [l \in {} |-> NULL]

\* What thread t reads from member loc: its own buffered store, else memory.
View(t, loc) == IF loc \in DOMAIN buf[t] THEN buf[t][loc] ELSE mem[loc]

(***************************************************************************)
(* JNI.  GetObjectClass returns a local reference: it belongs to the       *)
(* calling thread and is freed when that thread's native method returns.   *)
(* The reference thread t gets is written t.                               *)
(***************************************************************************)
JNI_GetObjectClass(t) == t

\* The jfieldID of field f of the managed class of kind k.
IndexOf(k, f) == CHOOSE i \in 1..Len(CacheFields(k)) : CacheFields(k)[i] = f

(***************************************************************************)
(* GetFieldID(env, XFc.clazz, "f", sig): the class argument is re-read     *)
(* from the shared cache.  With a live reference to the class the result   *)
(* is the field's ID, or NULL (NoSuchFieldError pending) when the class    *)
(* does not declare the field.  When the member holds the reference of a   *)
(* thread whose native method has returned, the reference is dangling and  *)
(* the call is undefined: the slot may still name the class (the ID) or    *)
(* name something else (NULL, NoSuchFieldError pending).                   *)
(***************************************************************************)
JNI_GetFieldID(t, k, f) ==
    LET c == View(t, "clazz") IN
      IF f \in missing THEN {NULL}
      ELSE IF c = JNI_GetObjectClass(t) \/ (c \in Threads /\ localRef[c])
             THEN {IndexOf(k, f)}
             ELSE {IndexOf(k, f), NULL}

\* What one resolution by one thread alone stores in XFc.f.
SequentialResolution(k, f) == IF f \in missing THEN NULL ELSE IndexOf(k, f)

\* No marshalling round trip is under way.
MarshalOff ==
    /\ plat = "none"
    /\ obj = NULL
    /\ native = NULL
    /\ out = NULL
    /\ mpc = "off"
    /\ jexc = {}
    /\ cachedKinds = {}

Init ==
    /\ FacadeOff
    /\ MarshalOff
    /\ kind \in Kinds
    /\ missing \in {{}} \cup { {f} : f \in MissingCandidates(kind) }
    /\ mem = [l \in CacheLocs(kind) |-> NULL]
    /\ stored = {}
    /\ buf = [t \in Threads |-> EmptyBuf]
    /\ pc = [t \in Threads |-> "idle"]
    /\ op = [t \in Threads |-> "none"]
    /\ idx = [t \in Threads |-> 1]
    /\ calls = [t \in Threads |-> 0]
    /\ exc = [t \in Threads |-> FALSE]
    /\ startedSet = [t \in Threads |-> FALSE]
    /\ localRef = [t \in Threads |-> FALSE]
    /\ nres = [t \in Threads |-> 0]
    /\ late = FALSE

(***************************************************************************)
(* A store instruction of thread t, XFc.loc = v: it enters the thread's    *)
(* store buffer, which holds at most MaxPending stores.                    *)
(***************************************************************************)
Store(t, loc, v) ==
    /\ Cardinality(DOMAIN buf[t]) < MaxPending
    /\ buf' = [buf EXCEPT ![t] = (loc :> v) @@ @]
    /\ late' = (late \/ mem["cached"] # 0)
    /\ UNCHANGED <<mem, stored>>

\* A thread entering one of the three functions of the kind.
Call(t, o) ==
    /\ pc[t] = "idle"
    /\ calls[t] < MaxCalls
    /\ op' = [op EXCEPT ![t] = o]
    /\ pc' = [pc EXCEPT ![t] = IF o = "cacheFields" THEN "check" ELSE "entry"]
    /\ calls' = [calls EXCEPT ![t] = @ + 1]
    /\ startedSet' = [startedSet EXCEPT ![t] = (View(t, "cached") # 0)]
    /\ UNCHANGED <<fvars, mvars, kind, missing, mem, stored, buf, idx, exc, localRef, nres, late>>

\* The function, and the native method that called it, return: the local
\* references of the call are freed and a pending exception is thrown in the
\* managed caller.
Return(t) ==
    /\ pc' = [pc EXCEPT ![t] = "idle"]
    /\ op' = [op EXCEPT ![t] = "none"]
    /\ exc' = [exc EXCEPT ![t] = FALSE]
    /\ startedSet' = [startedSet EXCEPT ![t] = FALSE]
    /\ localRef' = [localRef EXCEPT ![t] = FALSE]

\* A variant of the test that never finds the cache populated.
CacheHit_Never(t) == FALSE

\* The test of the cached flag that getXFields/setXFields and cacheXFields
\* start with.
CacheHit(t) == View(t, "cached") # 0

\* getXFields / setXFields:  if (!XFc.cached) cacheXFields(env, lpObject);
FieldsEntry(t) ==
    /\ pc[t] = "entry"
    /\ pc' = [pc EXCEPT ![t] = IF CacheHit(t) THEN "marshal" ELSE "check"]
    /\ UNCHANGED <<fvars, mvars, kind, missing, mem, stored, buf, op, idx, calls, exc,
                   startedSet, localRef, nres, late>>

\* A variant of cacheXFields without its first line: it resolves on every call.
cacheFields_nocheck(t) ==
    /\ pc[t] = "check"
    /\ pc' = [pc EXCEPT ![t] = "clazz"]
    /\ UNCHANGED <<fvars, mvars, kind, missing, mem, stored, buf, op, idx, calls, exc,
                   startedSet, localRef, nres, late>>

\* cacheXFields:  if (XFc.cached) return;
cacheFields_check(t) ==
    /\ pc[t] = "check"
    /\ IF CacheHit(t)
         THEN IF op[t] = "cacheFields"
                THEN Return(t)
                ELSE /\ pc' = [pc EXCEPT ![t] = "marshal"]
                     /\ UNCHANGED <<op, exc, startedSet, localRef>>
         ELSE /\ pc' = [pc EXCEPT ![t] = "clazz"]
              /\ UNCHANGED <<op, exc, startedSet, localRef>>
    /\ UNCHANGED <<fvars, mvars, kind, missing, mem, stored, buf, idx, calls, nres, late>>

\* cacheXFields:  XFc.clazz = (*env)->GetObjectClass(env, lpObject);
cacheFields_clazz(t) ==
    /\ pc[t] = "clazz"
    /\ Store(t, "clazz", JNI_GetObjectClass(t))
    /\ localRef' = [localRef EXCEPT ![t] = TRUE]
    /\ pc' = [pc EXCEPT ![t] = "field"]
    /\ UNCHANGED <<fvars, mvars, kind, missing, op, idx, calls, exc, startedSet, nres>>

\* cacheXFields:  XFc.f = (*env)->GetFieldID(env, XFc.clazz, "f", sig);
\* one statement per member, in declaration order.
cacheFields_field(t) ==
    /\ pc[t] = "field"
    /\ LET f == CacheFields(kind)[idx[t]] IN
         \E id \in JNI_GetFieldID(t, kind, f) :
            /\ Store(t, f, id)
            /\ exc' = [exc EXCEPT ![t] = @ \/ id = NULL]
    /\ IF idx[t] = Len(CacheFields(kind))
         THEN /\ pc' = [pc EXCEPT ![t] = "barrier"]
              /\ idx' = [idx EXCEPT ![t] = 1]
         ELSE /\ pc' = pc
              /\ idx' = [idx EXCEPT ![t] = @ + 1]
    /\ UNCHANGED <<fvars, mvars, kind, missing, op, calls, startedSet, localRef, nres>>

\* A variant of the barrier that orders nothing.
hawtjni_w_barrier_none(t) == UNCHANGED <<mem, stored, buf>>

\* hawtjni_w_barrier(): every earlier store of the thread reaches memory
\* before any later one.
hawtjni_w_barrier(t) ==
    /\ mem' = [l \in DOMAIN mem |-> View(t, l)]
    /\ stored' = stored \cup DOMAIN buf[t]
    /\ buf' = [buf EXCEPT ![t] = EmptyBuf]

cacheFields_barrier(t) ==
    /\ pc[t] = "barrier"
    /\ hawtjni_w_barrier(t)
    /\ pc' = [pc EXCEPT ![t] = "publish"]
    /\ UNCHANGED <<fvars, mvars, kind, missing, op, idx, calls, exc, startedSet, localRef,
                   nres, late>>

\* cacheXFields:  XFc.cached = 1;  and the return that follows it.
cacheFields_publish(t) ==
    /\ pc[t] = "publish"
    /\ Store(t, "cached", 1)
    /\ nres' = [nres EXCEPT ![t] = @ + 1]
    /\ IF op[t] = "cacheFields"
         THEN Return(t)
         ELSE /\ pc' = [pc EXCEPT ![t] = "marshal"]
              /\ UNCHANGED <<op, exc, startedSet, localRef>>
    /\ UNCHANGED <<fvars, mvars, kind, missing, idx, calls>>

\* The accessors the body of getXFields / setXFields passes to
\* Get<T>Field / Set<T>Field: every jfieldID member of XFc, as the thread
\* reads it.
AccessorsUsed(t) == [f \in FieldNames(kind) |-> View(t, f)]

\* The body of getXFields / setXFields, run whatever the accessors hold and
\* whether or not an exception is pending, and its return.
FieldsMarshal(t) ==
    /\ pc[t] = "marshal"
    /\ Return(t)
    /\ UNCHANGED <<fvars, mvars, kind, missing, mem, stored, buf, idx, calls, nres, late>>

\* The store buffer of thread t lets one buffered store reach memory.
Drain(t, loc) ==
    /\ loc \in DOMAIN buf[t]
    /\ mem' = [mem EXCEPT ![loc] = buf[t][loc]]
    /\ stored' = stored \cup {loc}
    /\ buf' = [buf EXCEPT ![t] = [l \in DOMAIN @ \ {loc} |-> @[l]]]
    /\ UNCHANGED <<fvars, mvars, kind, missing, pc, op, idx, calls, exc, startedSet,
                   localRef, nres, late>>

\* The steps thread t can take by itself: its code and its own store buffer.
ThreadStep(t) ==
    \/ FieldsEntry(t)
    \/ cacheFields_check(t)
    \/ cacheFields_clazz(t)
    \/ cacheFields_field(t)
    \/ cacheFields_barrier(t)
    \/ cacheFields_publish(t)
    \/ FieldsMarshal(t)
    \/ \E loc \in CacheLocs(kind) : Drain(t, loc)

Next ==
    \/ \E t \in Threads, o \in Ops : Call(t, o)
    \/ \E t \in Threads : FieldsEntry(t)
    \/ \E t \in Threads : cacheFields_check(t)
    \/ \E t \in Threads : cacheFields_clazz(t)
    \/ \E t \in Threads : cacheFields_field(t)
    \/ \E t \in Threads : cacheFields_barrier(t)
    \/ \E t \in Threads : cacheFields_publish(t)
    \/ \E t \in Threads : FieldsMarshal(t)
    \/ \E t \in Threads : \E loc \in CacheLocs(kind) : Drain(t, loc)

Spec == Init /\ [][Next]_vars

(***************************************************************************)
(* Marshalling of struct termios (clibrary.c).                             *)
(*                                                                         *)
(* An integer of n bytes is written as the sequence of its n base-256      *)
(* digits, least significant first, so that a conversion between integer   *)
(* types is what C makes it: a conversion to a narrower unsigned type      *)
(* keeps the low digits, a conversion of an unsigned value to a wider type *)
(* adds zero digits.                                                       *)
(***************************************************************************)
Fill(n, b) == [i \in 1..n |-> b]

\* sizeof(jlong)
JlongBytes == 8

\* The platforms clibrary.c is built for, by the widths of their termios.
Platforms == {"linux", "darwin"}

\* sizeof(tcflag_t): unsigned int on Linux, unsigned long on macOS.
TcflagBytes(p) == IF p = "linux" THEN 4 ELSE 8

\* sizeof(speed_t): unsigned int on Linux, unsigned long on macOS.
SpeedBytes(p) == IF p = "linux" THEN 4 ELSE 8

\* NCCS, the number of elements of c_cc: 32 on Linux, 20 on macOS.
NCCS(p) == IF p = "linux" THEN 32 ELSE 20

\* The jlong members of the managed Termios, and the native type of each.
FlagFields == {"c_iflag", "c_oflag", "c_cflag", "c_lflag"}

SpeedFields == {"c_ispeed", "c_ospeed"}

LongFields == FlagFields \cup SpeedFields

NativeBytes(p, f) == IF f \in FlagFields THEN TcflagBytes(p) ELSE SpeedBytes(p)

\* lpStruct->f = <jlong>: conversion to the unsigned type of w bytes.
Narrow(v, w) == SubSeq(v, 1, w)

\* A variant of the conversion to jlong that extends the sign bit.
Widen_SignExtend(v) ==
    v \o Fill(JlongBytes - Len(v), IF v[Len(v)] >= 128 THEN 255 ELSE 0)

\* (jlong)lpStruct->f: conversion of an unsigned value to the 64-bit jlong.
Widen(v) == v \o Fill(JlongBytes - Len(v), 0)

\* The value v is representable in w bytes.
Fits(v, w) == \A i \in (w + 1)..Len(v) : v[i] = 0

\* (jbyte *)lpStruct->c_cc: a cc_t (unsigned char) read as a jbyte and a
\* jbyte stored as a cc_t.
AsJbyte(u) == IF u >= 128 THEN u - 256 ELSE u

AsCc(b) == b % 256

\* Element i (from 1) of a byte sequence; outside the sequence a read finds a
\* byte that is not part of it.
ElementAt(s, i) == IF i \in 1..Len(s) THEN s[i] ELSE 0

\* The bytes s with those of region written over them from offset start on.
WriteAt(s, start, region) ==
    LET last == IF start + Len(region) > Len(s) THEN start + Len(region) ELSE Len(s)
    IN  [i \in 1..last |->
           IF i \in (start + 1)..(start + Len(region)) THEN region[i - start] ELSE s[i]]

\* A variant of the bounds test that accepts every region.
RegionInBounds_Unchecked(n, start, len) == TRUE

\* The test Get/SetByteArrayRegion make of the region [start, start+len) of
\* an array of n elements.
RegionInBounds(n, start, len) == start >= 0 /\ len >= 0 /\ start + len <= n

\* (*env)->GetByteArrayRegion(env, array, start, len, buf): copies the region
\* into buf, or throws ArrayIndexOutOfBoundsException and copies nothing.
JNI_GetByteArrayRegion(array, start, len, dst) ==
    IF RegionInBounds(Len(array), start, len)
      THEN [thrown |-> FALSE,
            buf |-> WriteAt(dst, 0, [i \in 1..len |-> ElementAt(array, start + i)])]
      ELSE [thrown |-> TRUE, buf |-> dst]

\* (*env)->SetByteArrayRegion(env, array, start, len, buf): copies buf into
\* the region, or throws ArrayIndexOutOfBoundsException and copies nothing.
JNI_SetByteArrayRegion(array, start, len, src) ==
    IF RegionInBounds(Len(array), start, len)
      THEN [thrown |-> FALSE,
            array |-> WriteAt(array, start, [i \in 1..len |-> ElementAt(src, i)])]
      ELSE [thrown |-> TRUE, array |-> array]

\* A variant of the length of the copied region, one element too long.
CcRegionLen_OneMore(p) == NCCS(p) + 1

\* sizeof(lpStruct->c_cc), the length of the region copied to and from c_cc.
CcRegionLen(p) == NCCS(p)

\* The jlong values a flag or speed member of the managed object holds:
\* all-zero, all-one, and a value of 32 bits with bit 31 set.
AllZero == Fill(JlongBytes, 0)

AllOne == Fill(JlongBytes, 255)

Bit31Set == <<238, 255, 192, 128, 0, 0, 0, 0>>

JlongValues == {AllZero, AllOne, Bit31Set}

\* A managed byte[] of n elements, all different, of both signs.
CcArray(n) == [i \in 1..n |-> AsJbyte((i * 37) % 256)]

\* The lengths of the managed c_cc array: empty, one short of NCCS, NCCS,
\* one more than NCCS.
CcLengths(p) == {0, NCCS(p) - 1, NCCS(p), NCCS(p) + 1}

\* The managed objects getTermiosFields is given.
TerminalAttributes(p) ==
    [c_iflag : JlongValues, c_oflag : JlongValues, c_cflag : JlongValues,
     c_lflag : JlongValues, c_cc : { CcArray(n) : n \in CcLengths(p) },
     c_ispeed : JlongValues, c_ospeed : JlongValues]

\* The managed objects setTermiosFields is given: members that no
\* marshalled value equals.
TargetAttributes(p) ==
    [c_iflag : {Fill(JlongBytes, 90)}, c_oflag : {Fill(JlongBytes, 90)},
     c_cflag : {Fill(JlongBytes, 90)}, c_lflag : {Fill(JlongBytes, 90)},
     c_cc : { Fill(n, 85) : n \in CcLengths(p) \ {0} },
     c_ispeed : {Fill(JlongBytes, 90)}, c_ospeed : {Fill(JlongBytes, 90)}]

\* struct termios _arg: a local that nothing initialises; its bytes are
\* whatever the stack holds.
UninitTermios(p) ==
    { [c_iflag |-> Fill(TcflagBytes(p), g), c_oflag |-> Fill(TcflagBytes(p), g),
       c_cflag |-> Fill(TcflagBytes(p), g), c_lflag |-> Fill(TcflagBytes(p), g),
       c_cc |-> Fill(NCCS(p), g),
       c_ispeed |-> Fill(SpeedBytes(p), g), c_ospeed |-> Fill(SpeedBytes(p), g)]
      : g \in {0, 165} }

\* The threads of Spec stay out of a marshalling round trip: the cache of
\* the kind is resolved inside getXFields / setXFields by the one thread.
ThreadsOff(k) ==
    /\ kind = k
    /\ missing = {}
    /\ mem = [l \in CacheLocs(k) |-> NULL]
    /\ stored = {}
    /\ buf = [t \in Threads |-> EmptyBuf]
    /\ pc = [t \in Threads |-> "idle"]
    /\ op = [t \in Threads |-> "none"]
    /\ idx = [t \in Threads |-> 1]
    /\ calls = [t \in Threads |-> 0]
    /\ exc = [t \in Threads |-> FALSE]
    /\ startedSet = [t \in Threads |-> FALSE]
    /\ localRef = [t \in Threads |-> FALSE]
    /\ nres = [t \in Threads |-> 0]
    /\ late = FALSE

InitTermios ==
    /\ FacadeOff
    /\ ThreadsOff("Termios")
    /\ plat \in Platforms
    /\ obj \in TerminalAttributes(plat)
    /\ native \in UninitTermios(plat)
    /\ out \in TargetAttributes(plat)
    /\ mpc = "start"
    /\ jexc = {}
    /\ cachedKinds = {}

\* getTermiosFields(env, lpObject, lpStruct), lpObject = obj, lpStruct = &native.
getTermiosFields ==
    /\ mpc = "start"
    /\ plat \in Platforms
    /\ cachedKinds' = cachedKinds \cup {"Termios"}
    /\ LET r == JNI_GetByteArrayRegion(obj.c_cc, 0, CcRegionLen(plat),
                                       [i \in 1..Len(native.c_cc) |-> AsJbyte(native.c_cc[i])])
       IN  /\ native' =
                [c_iflag |-> Narrow(obj.c_iflag, TcflagBytes(plat)),
                 c_oflag |-> Narrow(obj.c_oflag, TcflagBytes(plat)),
                 c_cflag |-> Narrow(obj.c_cflag, TcflagBytes(plat)),
                 c_lflag |-> Narrow(obj.c_lflag, TcflagBytes(plat)),
                 c_cc |-> [i \in 1..Len(r.buf) |-> AsCc(r.buf[i])],
                 c_ispeed |-> Narrow(obj.c_ispeed, SpeedBytes(plat)),
                 c_ospeed |-> Narrow(obj.c_ospeed, SpeedBytes(plat))]
           /\ jexc' = IF r.thrown THEN jexc \cup {"getTermiosFields"} ELSE jexc
    /\ mpc' = "native"
    /\ UNCHANGED <<fvars, cvars, plat, obj, out>>

\* setTermiosFields(env, lpObject, lpStruct), lpObject = out, lpStruct = &native.
setTermiosFields ==
    /\ mpc = "native"
    /\ plat \in Platforms
    /\ cachedKinds' = cachedKinds \cup {"Termios"}
    /\ LET r == JNI_SetByteArrayRegion(out.c_cc, 0, CcRegionLen(plat),
                                       [i \in 1..Len(native.c_cc) |-> AsJbyte(native.c_cc[i])])
       IN  /\ out' =
                [c_iflag |-> Widen(native.c_iflag),
                 c_oflag |-> Widen(native.c_oflag),
                 c_cflag |-> Widen(native.c_cflag),
                 c_lflag |-> Widen(native.c_lflag),
                 c_cc |-> r.array,
                 c_ispeed |-> Widen(native.c_ispeed),
                 c_ospeed |-> Widen(native.c_ospeed)]
           /\ jexc' = IF r.thrown THEN jexc \cup {"setTermiosFields"} ELSE jexc
    /\ mpc' = "done"
    /\ UNCHANGED <<fvars, cvars, plat, obj, native>>

NextTermios ==
    \/ getTermiosFields
    \/ setTermiosFields

SpecTermios == InitTermios /\ [][NextTermios]_vars

(***************************************************************************)
(* Marshalling of INPUT_RECORD and the records of its Event union          *)
(* (kernel32.c).  A native structure is the sequence of its bytes in       *)
(* memory (little-endian, the layout of the Windows ABI); the address of a *)
(* member is the image and the member's offset in it.  A managed integer   *)
(* is its value; a managed boolean is the jboolean JNI hands over.         *)
(***************************************************************************)

\* The null reference, where a managed object is expected.
NullRef == [null |-> TRUE]

\* The n bytes of the two's-complement integer v.
LE(v, n) == [i \in 1..n |-> (v \div (256 ^ (i - 1))) % 256]

\* The n bytes at offset off of an image.
BytesAt(img, off, n) == SubSeq(img, off + 1, off + n)

RECURSIVE Unsigned(_)
\* The unsigned integer held by a run of bytes: (jchar), (jboolean).
Unsigned(b) == IF b = <<>> THEN 0 ELSE b[1] + 256 * Unsigned(Tail(b))

RECURSIVE Signed(_)
\* The signed integer held by a run of bytes: (jshort), (jint).
Signed(b) == IF Len(b) = 1 THEN AsJbyte(b[1]) ELSE b[1] + 256 * Signed(Tail(b))

\* EventType values.
KEY_EVENT == 1

MOUSE_EVENT == 2

FOCUS_EVENT == 16

\* sizeof(INPUT_RECORD): WORD EventType; then, aligned to 4, the union Event.
INPUT_RECORD_Size == 20

\* offsetof(INPUT_RECORD, Event)
EventOffset == 4

\* A variant of getCOORDFields that puts Y one byte after X.
getCOORDFields_Overlapping(o, img, base) ==
    WriteAt(WriteAt(img, base, LE(o.x, 2)), base + 1, LE(o.y, 2))

\* getCOORDFields: SHORT X at 0, SHORT Y at 2.
getCOORDFields(o, img, base) ==
    WriteAt(WriteAt(img, base, LE(o.x, 2)), base + 2, LE(o.y, 2))

setCOORDFields(o, img, base) ==
    [x |-> Signed(BytesAt(img, base, 2)), y |-> Signed(BytesAt(img, base + 2, 2))]

\* getKEY_EVENT_RECORDFields: BOOL bKeyDown at 0, WORD wRepeatCount at 4,
\* WORD wVirtualKeyCode at 6, WORD wVirtualScanCode at 8, WCHAR uChar at 10,
\* DWORD dwControlKeyState at 12.
getKEY_EVENT_RECORDFields(o, img, base) ==
    LET i1 == WriteAt(img, base, LE(o.keyDown, 4))
        i2 == WriteAt(i1, base + 4, LE(o.repeatCount, 2))
        i3 == WriteAt(i2, base + 6, LE(o.keyCode, 2))
        i4 == WriteAt(i3, base + 8, LE(o.scanCode, 2))
        i5 == WriteAt(i4, base + 10, LE(o.uchar, 2))
    IN  WriteAt(i5, base + 12, LE(o.controlKeyState, 4))

setKEY_EVENT_RECORDFields(o, img, base) ==
    [keyDown |-> Unsigned(BytesAt(img, base, 1)),
     repeatCount |-> Signed(BytesAt(img, base + 4, 2)),
     keyCode |-> Signed(BytesAt(img, base + 6, 2)),
     scanCode |-> Signed(BytesAt(img, base + 8, 2)),
     uchar |-> Unsigned(BytesAt(img, base + 10, 2)),
     controlKeyState |-> Signed(BytesAt(img, base + 12, 4))]

\* getMOUSE_EVENT_RECORDFields: COORD dwMousePosition at 0, DWORD
\* dwButtonState at 4, DWORD dwControlKeyState at 8, DWORD dwEventFlags at 12.
getMOUSE_EVENT_RECORDFields(o, img, base) ==
    LET i1 == IF o.mousePosition # NullRef
                THEN getCOORDFields(o.mousePosition, img, base) ELSE img
        i2 == WriteAt(i1, base + 4, LE(o.buttonState, 4))
        i3 == WriteAt(i2, base + 8, LE(o.controlKeyState, 4))
    IN  WriteAt(i3, base + 12, LE(o.eventFlags, 4))

setMOUSE_EVENT_RECORDFields(o, img, base) ==
    [mousePosition |-> IF o.mousePosition # NullRef
                         THEN setCOORDFields(o.mousePosition, img, base) ELSE NullRef,
     buttonState |-> Signed(BytesAt(img, base + 4, 4)),
     controlKeyState |-> Signed(BytesAt(img, base + 8, 4)),
     eventFlags |-> Signed(BytesAt(img, base + 12, 4))]

\* getWINDOW_BUFFER_SIZE_RECORDFields: COORD dwSize at 0.
getWINDOW_BUFFER_SIZE_RECORDFields(o, img, base) ==
    IF o.size # NullRef THEN getCOORDFields(o.size, img, base) ELSE img

setWINDOW_BUFFER_SIZE_RECORDFields(o, img, base) ==
    [size |-> IF o.size # NullRef THEN setCOORDFields(o.size, img, base) ELSE NullRef]

\* getMENU_EVENT_RECORDFields: UINT dwCommandId at 0.
getMENU_EVENT_RECORDFields(o, img, base) == WriteAt(img, base, LE(o.commandId, 4))

setMENU_EVENT_RECORDFields(o, img, base) ==
    [commandId |-> Signed(BytesAt(img, base, 4))]

\* getFOCUS_EVENT_RECORDFields: BOOL bSetFocus at 0.
getFOCUS_EVENT_RECORDFields(o, img, base) == WriteAt(img, base, LE(o.setFocus, 4))

setFOCUS_EVENT_RECORDFields(o, img, base) ==
    [setFocus |-> Unsigned(BytesAt(img, base, 1))]

\* &lpStruct->Event.KeyEvent, &lpStruct->Event.MouseEvent, ...: every member
\* of the union Event starts at the union.
KeyEventOffset == EventOffset

MouseEventOffset == EventOffset

WindowBufferSizeEventOffset == EventOffset

MenuEventOffset == EventOffset

FocusEventOffset == EventOffset

\* The image getINPUT_RECORDFields leaves: EventType, then each sub-object
\* that is not null, in the order of the source.
INPUT_RECORD_Image(o, img) ==
    LET i0 == WriteAt(img, 0, LE(o.eventType, 2))
        i1 == IF o.keyEvent # NullRef
                THEN getKEY_EVENT_RECORDFields(o.keyEvent, i0, KeyEventOffset) ELSE i0
        i2 == IF o.mouseEvent # NullRef
                THEN getMOUSE_EVENT_RECORDFields(o.mouseEvent, i1, MouseEventOffset) ELSE i1
        i3 == IF o.windowBufferSizeEvent # NullRef
                THEN getWINDOW_BUFFER_SIZE_RECORDFields(o.windowBufferSizeEvent, i2,
                                                        WindowBufferSizeEventOffset)
                ELSE i2
        i4 == IF o.menuEvent # NullRef
                THEN getMENU_EVENT_RECORDFields(o.menuEvent, i3, MenuEventOffset) ELSE i3
    IN  IF o.focusEvent # NullRef
          THEN getFOCUS_EVENT_RECORDFields(o.focusEvent, i4, FocusEventOffset) ELSE i4

\* The managed object setINPUT_RECORDFields leaves: eventType, then each
\* sub-object that is not null.
INPUT_RECORD_Object(o, img) ==
    [eventType |-> Signed(BytesAt(img, 0, 2)),
     keyEvent |-> IF o.keyEvent # NullRef
                    THEN setKEY_EVENT_RECORDFields(o.keyEvent, img, KeyEventOffset)
                    ELSE NullRef,
     mouseEvent |-> IF o.mouseEvent # NullRef
                      THEN setMOUSE_EVENT_RECORDFields(o.mouseEvent, img, MouseEventOffset)
                      ELSE NullRef,
     windowBufferSizeEvent |->
        IF o.windowBufferSizeEvent # NullRef
          THEN setWINDOW_BUFFER_SIZE_RECORDFields(o.windowBufferSizeEvent, img,
                                                  WindowBufferSizeEventOffset)
          ELSE NullRef,
     menuEvent |-> IF o.menuEvent # NullRef
                     THEN setMENU_EVENT_RECORDFields(o.menuEvent, img, MenuEventOffset)
                     ELSE NullRef,
     focusEvent |-> IF o.focusEvent # NullRef
                      THEN setFOCUS_EVENT_RECORDFields(o.focusEvent, img, FocusEventOffset)
                      ELSE NullRef]

\* The kinds whose cache a marshalling of the managed INPUT_RECORD o resolves.
KindsOf(o) ==
    {"INPUT_RECORD"}
      \cup (IF o.keyEvent # NullRef THEN {"KEY_EVENT_RECORD"} ELSE {})
      \cup (IF o.mouseEvent # NullRef THEN {"MOUSE_EVENT_RECORD"} ELSE {})
      \cup (IF o.windowBufferSizeEvent # NullRef THEN {"WINDOW_BUFFER_SIZE_RECORD"} ELSE {})
      \cup (IF o.menuEvent # NullRef THEN {"MENU_EVENT_RECORD"} ELSE {})
      \cup (IF o.focusEvent # NullRef THEN {"FOCUS_EVENT_RECORD"} ELSE {})
      \cup (IF \/ (o.mouseEvent # NullRef /\ o.mouseEvent.mousePosition # NullRef)
               \/ (o.windowBufferSizeEvent # NullRef /\ o.windowBufferSizeEvent.size # NullRef)
              THEN {"COORD"} ELSE {})

\* The managed sub-objects of the INPUT_RECORDs marshalled; NullRef is a
\* sub-object that is absent.
KeyEvents ==
    { NullRef,
      [keyDown |-> 1, repeatCount |-> 1, keyCode |-> 65, scanCode |-> 30,
       uchar |-> 97, controlKeyState |-> 0],
      [keyDown |-> 0, repeatCount |-> -1, keyCode |-> 13, scanCode |-> 28,
       uchar |-> 65535, controlKeyState |-> -2147483647 - 1] }

MouseEvents ==
    { NullRef,
      [mousePosition |-> [x |-> 0, y |-> 0], buttonState |-> 0,
       controlKeyState |-> 0, eventFlags |-> 0],
      [mousePosition |-> [x |-> 10, y |-> -1], buttonState |-> 1,
       controlKeyState |-> 8, eventFlags |-> 1],
      [mousePosition |-> NullRef, buttonState |-> 2, controlKeyState |-> 0,
       eventFlags |-> 4] }

WindowBufferSizeEvents == { NullRef, [size |-> NullRef], [size |-> [x |-> 80, y |-> 25]] }

MenuEvents == { NullRef, [commandId |-> 0], [commandId |-> 65537] }

FocusEvents == { NullRef, [setFocus |-> 0], [setFocus |-> 1] }

\* The managed objects getINPUT_RECORDFields is given.
InputRecords ==
    [eventType : {KEY_EVENT, MOUSE_EVENT, FOCUS_EVENT}, keyEvent : KeyEvents,
     mouseEvent : MouseEvents, windowBufferSizeEvent : WindowBufferSizeEvents,
     menuEvent : MenuEvents, focusEvent : FocusEvents]

\* The managed objects setINPUT_RECORDFields is given: every sub-object
\* present, or the key sub-object alone, holding values no record marshalled
\* holds.
TargetRecords ==
    LET key == [keyDown |-> 0, repeatCount |-> 7, keyCode |-> 7, scanCode |-> 7,
                uchar |-> 7, controlKeyState |-> 7]
    IN  { [eventType |-> 0, keyEvent |-> key,
           mouseEvent |-> [mousePosition |-> [x |-> 7, y |-> 7], buttonState |-> 7,
                           controlKeyState |-> 7, eventFlags |-> 7],
           windowBufferSizeEvent |-> [size |-> [x |-> 7, y |-> 7]],
           menuEvent |-> [commandId |-> 7],
           focusEvent |-> [setFocus |-> 0]],
          [eventType |-> 0, keyEvent |-> key, mouseEvent |-> NullRef,
           windowBufferSizeEvent |-> NullRef, menuEvent |-> NullRef, focusEvent |-> NullRef] }

\* INPUT_RECORD _arg0: a local that nothing initialises.
UninitInputRecord == { Fill(INPUT_RECORD_Size, g) : g \in {0, 165} }

InitInputRecord ==
    /\ FacadeOff
    /\ ThreadsOff("INPUT_RECORD")
    /\ plat = "windows"
    /\ obj \in InputRecords
    /\ native \in UninitInputRecord
    /\ out \in TargetRecords
    /\ mpc = "start"
    /\ jexc = {}
    /\ cachedKinds = {}

\* getINPUT_RECORDFields(env, lpObject, lpStruct), lpObject = obj,
\* lpStruct = &native.
getINPUT_RECORDFields ==
    /\ mpc = "start"
    /\ plat = "windows"
    /\ cachedKinds' = cachedKinds \cup KindsOf(obj)
    /\ native' = INPUT_RECORD_Image(obj, native)
    /\ mpc' = "native"
    /\ UNCHANGED <<fvars, cvars, plat, obj, out, jexc>>

\* setINPUT_RECORDFields(env, lpObject, lpStruct), lpObject = out,
\* lpStruct = &native.
setINPUT_RECORDFields ==
    /\ mpc = "native"
    /\ plat = "windows"
    /\ cachedKinds' = cachedKinds \cup KindsOf(out)
    /\ out' = INPUT_RECORD_Object(out, native)
    /\ mpc' = "done"
    /\ UNCHANGED <<fvars, cvars, plat, obj, native, jexc>>

NextInputRecord ==
    \/ getINPUT_RECORDFields
    \/ setINPUT_RECORDFields

SpecInputRecord == InitInputRecord /\ [][NextInputRecord]_vars

(***************************************************************************)
(* Marshalling of CONSOLE_SCREEN_BUFFER_INFO and SMALL_RECT (kernel32.c).  *)
(***************************************************************************)

\* sizeof(CONSOLE_SCREEN_BUFFER_INFO): COORD dwSize at 0, COORD
\* dwCursorPosition at 4, WORD wAttributes at 8, SMALL_RECT srWindow at 10,
\* COORD dwMaximumWindowSize at 18.
CSBI_Size == 22

dwSizeOffset == 0

dwCursorPositionOffset == 4

wAttributesOffset == 8

srWindowOffset == 10

dwMaximumWindowSizeOffset == 18

\* getSMALL_RECTFields: SHORT Left at 0, Top at 2, Right at 4, Bottom at 6.
getSMALL_RECTFields(o, img, base) ==
    LET i1 == WriteAt(img, base, LE(o.left, 2))
        i2 == WriteAt(i1, base + 2, LE(o.top, 2))
        i3 == WriteAt(i2, base + 4, LE(o.right, 2))
    IN  WriteAt(i3, base + 6, LE(o.bottom, 2))

\* A variant of setSMALL_RECTFields that reads Right and Bottom swapped.
setSMALL_RECTFields_Swapped(o, img, base) ==
    [left |-> Signed(BytesAt(img, base, 2)),
     top |-> Signed(BytesAt(img, base + 2, 2)),
     right |-> Signed(BytesAt(img, base + 6, 2)),
     bottom |-> Signed(BytesAt(img, base + 4, 2))]

setSMALL_RECTFields(o, img, base) ==
    [left |-> Signed(BytesAt(img, base, 2)),
     top |-> Signed(BytesAt(img, base + 2, 2)),
     right |-> Signed(BytesAt(img, base + 4, 2)),
     bottom |-> Signed(BytesAt(img, base + 6, 2))]

\* The image getCONSOLE_SCREEN_BUFFER_INFOFields leaves: each sub-object
\* that is not null and the attributes, in the order of the source.
CSBI_Image(o, img) ==
    LET i1 == IF o.size # NullRef
                THEN getCOORDFields(o.size, img, dwSizeOffset) ELSE img
        i2 == IF o.cursorPosition # NullRef
                THEN getCOORDFields(o.cursorPosition, i1, dwCursorPositionOffset) ELSE i1
        i3 == WriteAt(i2, wAttributesOffset, LE(o.attributes, 2))
        i4 == IF o.window # NullRef
                THEN getSMALL_RECTFields(o.window, i3, srWindowOffset) ELSE i3
    IN  IF o.maximumWindowSize # NullRef
          THEN getCOORDFields(o.maximumWindowSize, i4, dwMaximumWindowSizeOffset) ELSE i4

\* The managed object setCONSOLE_SCREEN_BUFFER_INFOFields leaves.
CSBI_Object(o, img) ==
    [size |-> IF o.size # NullRef
                THEN setCOORDFields(o.size, img, dwSizeOffset) ELSE NullRef,
     cursorPosition |->
        IF o.cursorPosition # NullRef
          THEN setCOORDFields(o.cursorPosition, img, dwCursorPositionOffset) ELSE NullRef,
     attributes |-> Signed(BytesAt(img, wAttributesOffset, 2)),
     window |-> IF o.window # NullRef
                  THEN setSMALL_RECTFields(o.window, img, srWindowOffset) ELSE NullRef,
     maximumWindowSize |->
        IF o.maximumWindowSize # NullRef
          THEN setCOORDFields(o.maximumWindowSize, img, dwMaximumWindowSizeOffset)
          ELSE NullRef]

\* The kinds whose cache a marshalling of the managed
\* CONSOLE_SCREEN_BUFFER_INFO o resolves.
CSBI_KindsOf(o) ==
    {"CONSOLE_SCREEN_BUFFER_INFO"}
      \cup (IF o.size # NullRef \/ o.cursorPosition # NullRef
               \/ o.maximumWindowSize # NullRef THEN {"COORD"} ELSE {})
      \cup (IF o.window # NullRef THEN {"SMALL_RECT"} ELSE {})

\* The managed COORD and SMALL_RECT sub-objects marshalled; NullRef is a
\* sub-object that is absent.
Coords == { NullRef, [x |-> 80, y |-> 25], [x |-> -1, y |-> 32767] }

SmallRects ==
    { NullRef, [left |-> 0, top |-> 0, right |-> 79, bottom |-> 24],
      [left |-> -32768, top |-> 1, right |-> 2, bottom |-> -3] }

\* The managed objects getCONSOLE_SCREEN_BUFFER_INFOFields is given.
ScreenBufferInfos ==
    [size : Coords, cursorPosition : Coords, attributes : {0, 7, -1},
     window : SmallRects, maximumWindowSize : Coords]

\* The managed objects setCONSOLE_SCREEN_BUFFER_INFOFields is given: every
\* sub-object present, the window absent, or every sub-object absent.
TargetScreenBufferInfos ==
    LET c == [x |-> 9, y |-> 9]
        r == [left |-> 9, top |-> 9, right |-> 9, bottom |-> 9]
    IN  { [size |-> c, cursorPosition |-> c, attributes |-> 9, window |-> r,
           maximumWindowSize |-> c],
          [size |-> c, cursorPosition |-> c, attributes |-> 9, window |-> NullRef,
           maximumWindowSize |-> c],
          [size |-> NullRef, cursorPosition |-> NullRef, attributes |-> 9,
           window |-> NullRef, maximumWindowSize |-> NullRef] }

\* CONSOLE_SCREEN_BUFFER_INFO _arg1: a local that nothing initialises.
UninitCSBI == { Fill(CSBI_Size, g) : g \in {0, 165} }

InitCSBI ==
    /\ FacadeOff
    /\ ThreadsOff("CONSOLE_SCREEN_BUFFER_INFO")
    /\ plat = "windows"
    /\ obj \in ScreenBufferInfos
    /\ native \in UninitCSBI
    /\ out \in TargetScreenBufferInfos
    /\ mpc = "start"
    /\ jexc = {}
    /\ cachedKinds = {}

\* getCONSOLE_SCREEN_BUFFER_INFOFields(env, lpObject, lpStruct),
\* lpObject = obj, lpStruct = &native.
getCONSOLE_SCREEN_BUFFER_INFOFields ==
    /\ mpc = "start"
    /\ kind = "CONSOLE_SCREEN_BUFFER_INFO"
    /\ cachedKinds' = cachedKinds \cup CSBI_KindsOf(obj)
    /\ native' = CSBI_Image(obj, native)
    /\ mpc' = "native"
    /\ UNCHANGED <<fvars, cvars, plat, obj, out, jexc>>

\* setCONSOLE_SCREEN_BUFFER_INFOFields(env, lpObject, lpStruct),
\* lpObject = out, lpStruct = &native.
setCONSOLE_SCREEN_BUFFER_INFOFields ==
    /\ mpc = "native"
    /\ kind = "CONSOLE_SCREEN_BUFFER_INFO"
    /\ cachedKinds' = cachedKinds \cup CSBI_KindsOf(out)
    /\ out' = CSBI_Object(out, native)
    /\ mpc' = "done"
    /\ UNCHANGED <<fvars, cvars, plat, obj, native, jexc>>

NextCSBI ==
    \/ getCONSOLE_SCREEN_BUFFER_INFOFields
    \/ setCONSOLE_SCREEN_BUFFER_INFOFields

SpecCSBI == InitCSBI /\ [][NextCSBI]_vars

(***************************************************************************)
(* The native methods of the facade (clibrary.c, kernel32.c).  Each has    *)
(* the same shape:                                                         *)
(*     if (argN) if ((lpargN = <acquisition>) == NULL) goto fail;   ...    *)
(*     rc = (jint)<OS call>(..., lpargN or *lpargN, ...);                  *)
(*   fail:                                                                 *)
(*     if (argN && lpargN) <release or write-back>;                 ...    *)
(*     return rc;                                                          *)
(* An acquisition is "pin" (Get<T>ArrayElements, GetPrimitiveArrayCritical:*)
(* NULL when it fails, to be released), "marshal" (getXFields, which       *)
(* returns lpStruct) or "local" (&_argN).  What the marshalling functions  *)
(* copy is the matter of SpecTermios, SpecInputRecord and SpecCSBI.        *)
(***************************************************************************)
PosixMethods == {"ioctl_WinSize", "ioctl_IntArray", "openpty", "tcgetattr", "tcsetattr"}

WindowsMethods ==
    {"SetConsoleCursorPosition", "FillConsoleOutputAttribute",
     "FillConsoleOutputCharacterW", "ScrollConsoleScreenBuffer", "WriteConsoleW",
     "FormatMessageW", "GetConsoleScreenBufferInfo"}

Methods == PosixMethods \cup WindowsMethods

\* The acquisition statements of a native method, in order.
Acquisitions(m) ==
    CASE m = "ioctl_WinSize" -> << [arg |-> "arg2", how |-> "marshal"] >>
      [] m = "ioctl_IntArray" -> << [arg |-> "arg2", how |-> "pin"] >>
      [] m = "openpty" ->
           << [arg |-> "arg0", how |-> "pin"], [arg |-> "arg1", how |-> "pin"],
              [arg |-> "arg2", how |-> "pin"], [arg |-> "arg3", how |-> "marshal"],
              [arg |-> "arg4", how |-> "marshal"] >>
      [] m = "tcgetattr" -> << [arg |-> "arg1", how |-> "local"] >>
      [] m = "tcsetattr" -> << [arg |-> "arg2", how |-> "marshal"] >>
      [] m = "SetConsoleCursorPosition" -> << [arg |-> "arg1", how |-> "marshal"] >>
      [] m \in {"FillConsoleOutputAttribute", "FillConsoleOutputCharacterW"} ->
           << [arg |-> "arg3", how |-> "marshal"], [arg |-> "arg4", how |-> "pin"] >>
      [] m = "ScrollConsoleScreenBuffer" ->
           << [arg |-> "arg1", how |-> "marshal"], [arg |-> "arg2", how |-> "marshal"],
              [arg |-> "arg3", how |-> "marshal"], [arg |-> "arg4", how |-> "marshal"] >>
      [] m = "WriteConsoleW" ->
           << [arg |-> "arg1", how |-> "pin"], [arg |-> "arg3", how |-> "pin"] >>
      [] m = "FormatMessageW" ->
           << [arg |-> "arg4", how |-> "pin"], [arg |-> "arg6", how |-> "pin"] >>
      [] m = "GetConsoleScreenBufferInfo" -> << [arg |-> "arg1", how |-> "local"] >>

\* The local pointers the OS call is given, each as the pointer (lpargN) or
\* as the structure it points to (*lpargN).
OsArguments(m) ==
    CASE m \in {"ioctl_WinSize", "ioctl_IntArray", "tcsetattr"} ->
           << [arg |-> "arg2", pass |-> "pointer"] >>
      [] m = "openpty" ->
           << [arg |-> "arg0", pass |-> "pointer"], [arg |-> "arg1", pass |-> "pointer"],
              [arg |-> "arg2", pass |-> "pointer"], [arg |-> "arg3", pass |-> "pointer"],
              [arg |-> "arg4", pass |-> "pointer"] >>
      [] m \in {"tcgetattr", "GetConsoleScreenBufferInfo"} ->
           << [arg |-> "arg1", pass |-> "pointer"] >>
      [] m = "SetConsoleCursorPosition" -> << [arg |-> "arg1", pass |-> "value"] >>
      [] m \in {"FillConsoleOutputAttribute", "FillConsoleOutputCharacterW"} ->
           << [arg |-> "arg3", pass |-> "value"], [arg |-> "arg4", pass |-> "pointer"] >>
      [] m = "ScrollConsoleScreenBuffer" ->
           << [arg |-> "arg1", pass |-> "pointer"], [arg |-> "arg2", pass |-> "pointer"],
              [arg |-> "arg3", pass |-> "value"], [arg |-> "arg4", pass |-> "pointer"] >>
      [] m = "WriteConsoleW" ->
           << [arg |-> "arg1", pass |-> "pointer"], [arg |-> "arg3", pass |-> "pointer"] >>
      [] m = "FormatMessageW" -> << [arg |-> "arg4", pass |-> "pointer"] >>

\* A variant of the statements after fail: that releases in acquisition order.
Cleanups_InAcquisitionOrder(m) ==
    LET pins == SelectSeq(Acquisitions(m), LAMBDA a : a.how = "pin")
    IN  [i \in 1..Len(pins) |-> [arg |-> pins[i].arg, how |-> "release", mode |-> "0"]]

\* A variant of the statements after fail: that writes every marshalled
\* structure back.
Cleanups_WriteBackAll(m) ==
    LET acq == Acquisitions(m)
    IN  [i \in 1..Len(acq) |->
           [arg |-> acq[Len(acq) + 1 - i].arg,
            how |-> IF acq[Len(acq) + 1 - i].how = "pin" THEN "release" ELSE "writeback",
            mode |-> "0"]]

\* The statements after fail:, in order: a release with its mode (0 copies
\* the elements back, JNI_ABORT does not), or a write-back by setXFields.
Cleanups(m) ==
    CASE m = "ioctl_WinSize" -> << [arg |-> "arg2", how |-> "writeback", mode |-> "-"] >>
      [] m = "ioctl_IntArray" -> << [arg |-> "arg2", how |-> "release", mode |-> "0"] >>
      [] m = "openpty" ->
           << [arg |-> "arg2", how |-> "release", mode |-> "0"], [arg |-> "arg1", how |-> "release", mode |-> "0"],
              [arg |-> "arg0", how |-> "release", mode |-> "0"] >>
      [] m \in {"tcgetattr", "GetConsoleScreenBufferInfo"} ->
           << [arg |-> "arg1", how |-> "writeback", mode |-> "-"] >>
      [] m \in {"tcsetattr", "SetConsoleCursorPosition", "ScrollConsoleScreenBuffer"} ->
           << >>
      [] m \in {"FillConsoleOutputAttribute", "FillConsoleOutputCharacterW"} ->
           << [arg |-> "arg4", how |-> "release", mode |-> "0"] >>
      [] m = "WriteConsoleW" ->
           << [arg |-> "arg3", how |-> "release", mode |-> "0"],
              [arg |-> "arg1", how |-> "release", mode |-> "JNI_ABORT"] >>
      [] m = "FormatMessageW" ->
           << [arg |-> "arg6", how |-> "release", mode |-> "0"], [arg |-> "arg4", how |-> "release", mode |-> "0"] >>

\* The object arguments of a native method, and those it pins.
ArgsOf(m) == { Acquisitions(m)[i].arg : i \in 1..Len(Acquisitions(m)) }

PinnedArgsOf(m) ==
    { Acquisitions(m)[i].arg : i \in { j \in 1..Len(Acquisitions(m)) :
                                          Acquisitions(m)[j].how = "pin" } }

\* The values the OS call returns: failure and success of the POSIX calls
\* (-1, 0), of the Windows calls (0, nonzero).
OsResults == {-1, 0, 1}

\* rc = (jint)<OS call>(...): the OS calls return int or BOOL.
JintOf_Generic(v) == IF v = 0 THEN 0 ELSE -1

JintOf(v) == v

\* The invocations: a native method, the object arguments that are null,
\* the pinned arguments whose pinning fails, what the OS call returns.
Invocations ==
    { [method |-> m, absent |-> ab, failing |-> fl, osrc |-> r] :
        m \in Methods, ab \in SUBSET {"arg0", "arg1", "arg2", "arg3", "arg4", "arg6"},
        fl \in SUBSET {"arg0", "arg1", "arg2", "arg3", "arg4", "arg6"}, r \in OsResults }

\* A variant of the test of argN that takes every argument as present.
ArgPresent_Always(f, a) == TRUE

\* if (argN)
ArgPresent(f, a) == a \notin f.absent

\* A non-null pointer: the address argument a is pinned at, or of _argN.
AddressOf(a) == CHOOSE i \in 1..7 : a = <<"arg0", "arg1", "arg2", "arg3", "arg4", "arg5", "arg6">>[i]

\* Where a native method goes on after its acquisitions and after its OS call.
At(where, i) == [at |-> where, i |-> i]

AfterAcquisition(m, i) ==
    IF i < Len(Acquisitions(m)) THEN At("acquire", i + 1) ELSE At("call", 0)

\* A variant in which a jump to fail: skips the statements after it.
AtFail_NoCleanup(m) == At("return", 0)

AtFail(m) == IF Len(Cleanups(m)) > 0 THEN At("cleanup", 1) ELSE At("return", 0)

AfterCleanup(m, i) ==
    IF i < Len(Cleanups(m)) THEN At("cleanup", i + 1) ELSE At("return", 0)

InitFacade ==
    /\ ThreadsOff("Termios")
    /\ MarshalOff
    /\ fn \in { f \in Invocations :
                  /\ f.absent \subseteq ArgsOf(f.method)
                  /\ f.failing \subseteq PinnedArgsOf(f.method) \ f.absent }
    /\ fpc = At("acquire", 1)
    /\ lparg = [a \in ArgsOf(fn.method) |-> NULL]
    /\ rc = 0
    /\ events = <<>>
    /\ hModuleNtDll = 0
    /\ NtQueryObject = 0
    /\ loadCalls = [LoadLibraryW |-> 0, GetProcAddress |-> 0]
    /\ kernel = NoPty

\* if (argN) if ((lpargN = <acquisition>) == NULL) goto fail;
FacadeAcquire ==
    /\ fpc.at = "acquire"
    /\ LET a == Acquisitions(fn.method)[fpc.i] IN
         IF ~ArgPresent(fn, a.arg)
           THEN /\ fpc' = AfterAcquisition(fn.method, fpc.i)
                /\ UNCHANGED <<lparg, events>>
           ELSE IF a.how = "pin" /\ a.arg \in fn.failing
                  THEN /\ fpc' = AtFail(fn.method)
                       /\ events' = Append(events, [ev |-> "pinfailed", arg |-> a.arg])
                       /\ UNCHANGED lparg
                  ELSE /\ fpc' = AfterAcquisition(fn.method, fpc.i)
                       /\ lparg' = [lparg EXCEPT ![a.arg] = AddressOf(a.arg)]
                       /\ events' = Append(events, [ev |-> a.how, arg |-> a.arg])
    /\ UNCHANGED <<cvars, mvars, ivars, fn, rc>>

\* rc = (jint)<OS call>(..., lpargN, ..., *lpargM, ...);  evaluating *lpargM
\* with lpargM == NULL is a fault.
FacadeOsCall ==
    /\ fpc.at = "call"
    /\ LET os == OsArguments(fn.method) IN
         IF \E i \in 1..Len(os) : os[i].pass = "value" /\ lparg[os[i].arg] = NULL
           THEN /\ fpc' = At("faulted", 0)
                /\ events' = Append(events, [ev |-> "fault", arg |-> "-"])
                /\ UNCHANGED rc
           ELSE /\ fpc' = AtFail(fn.method)
                /\ events' = Append(events,
                                [ev |-> "oscall", arg |-> "-",
                                 ptrs |-> [i \in 1..Len(os) |-> lparg[os[i].arg]]])
                /\ rc' = JintOf(fn.osrc)
    /\ UNCHANGED <<cvars, mvars, ivars, fn, lparg>>

\* if (argN && lpargN) <release or write-back>;
FacadeCleanup ==
    /\ fpc.at = "cleanup"
    /\ LET c == Cleanups(fn.method)[fpc.i] IN
         /\ events' = IF ArgPresent(fn, c.arg) /\ lparg[c.arg] # NULL
                        THEN Append(events, [ev |-> c.how, arg |-> c.arg, mode |-> c.mode])
                        ELSE events
         /\ fpc' = AfterCleanup(fn.method, fpc.i)
    /\ UNCHANGED <<cvars, mvars, ivars, fn, lparg, rc>>

\* return rc;
FacadeReturn ==
    /\ fpc.at = "return"
    /\ fpc' = At("returned", 0)
    /\ events' = Append(events, [ev |-> "return", arg |-> "-", status |-> rc])
    /\ UNCHANGED <<cvars, mvars, ivars, fn, lparg, rc>>

NextFacade ==
    \/ FacadeAcquire
    \/ FacadeOsCall
    \/ FacadeCleanup
    \/ FacadeReturn

SpecFacade == InitFacade /\ [][NextFacade]_vars

\* The events of one sort, and the arguments they are about, in order.
EventsOf(sorts) == SelectSeq(events, LAMBDA e : e.ev \in sorts)

ArgsIn(es) == [i \in 1..Len(es) |-> es[i].arg]

Reverse(s) == [i \in 1..Len(s) |-> s[Len(s) + 1 - i]]

(***************************************************************************)
(* isatty of kernel32.c.  A handle of type FILE_TYPE_CHAR is a terminal    *)
(* when GetConsoleMode succeeds on it; any other handle is a terminal when *)
(* the name of its kernel object, asked of NtQueryObject of ntdll.dll,     *)
(* looks like the name of a pty pipe of MSYS2 or Cygwin.  hModuleNtDll and *)
(* NtQueryObject are globals, set by the first call that needs them.       *)
(* Wide characters are one-character strings; NUL is the terminator.       *)
(***************************************************************************)
FILE_TYPE_CHAR == 2

\* The values of GetFileType: unknown, disk, character, pipe.
FileTypes == {0, 1, FILE_TYPE_CHAR, 3}

\* The values of _get_osfhandle(arg0), NULL included.
Handles == {NULL, 1}

\* The values of GetConsoleMode: zero when it fails, nonzero otherwise.
ConsoleModeResults == {0, 1, 2}

\* The values of LoadLibraryW and of GetProcAddress: NULL when they fail.
ModuleHandles == {0, 1}

ProcAddresses == {0, 1}

\* The values of NtQueryObject: STATUS_SUCCESS (0), or a warning or error.
NtStatuses == {0, 1, -1}

NUL == "NUL"

\* The pieces the names of the kernel objects are made of.
NameFragments ==
    { <<"m", "s", "y", "s", "-">>, <<"c", "y", "g", "w", "i", "n", "-">>,
      <<"-", "p", "t", "y">>, <<"p", "t", "y">>, <<"1">> }

Names ==
    {<<>>} \cup NameFragments
           \cup { a \o b : a \in NameFragments, b \in NameFragments }
           \cup { a \o b \o c : a \in NameFragments, b \in NameFragments,
                                c \in NameFragments }

\* What NtQueryObject leaves in buffer: Name.Buffer is NULL, or points to
\* the wide characters at NameBuffer, of which the first Name.Length / 2
\* are the name; what follows them is whatever the call left there.
NameInfos ==
    { [Buffer |-> NULL, Length |-> 0, NameBuffer |-> <<"?">>] }
      \cup UNION { { [Buffer |-> 1, Length |-> 2 * k, NameBuffer |-> n \o <<"?">>] :
                        k \in { j \in {Len(n) - 1, Len(n)} : j >= 0 } } :
                    n \in Names }

\* name[nameinfo->Name.Length / 2] = 0;
Terminated(info) == [info.NameBuffer EXCEPT ![info.Length \div 2 + 1] = NUL]

\* The wide string at a pointer: the characters before the first NUL.
WString(s) ==
    LET nuls == { i \in 1..Len(s) : s[i] = NUL }
    IN  IF nuls = {} THEN s
        ELSE SubSeq(s, 1, (CHOOSE i \in nuls : \A j \in nuls : i <= j) - 1)

\* The positions at which needle occurs in the wide string at hay.
Occurrences(hay, needle) ==
    { i \in 1..(Len(WString(hay)) - Len(needle) + 1) :
         SubSeq(WString(hay), i, i + Len(needle) - 1) = needle }

\* wcsstr(hay, needle) as a condition: non-NULL when needle occurs in hay.
wcsstr(hay, needle) == Occurrences(hay, needle) # {}

\* (wcsstr(name, L"msys-") || wcsstr(name, L"cygwin-")) && wcsstr(name, L"-pty")
IsPtyName(name) ==
    /\ \/ wcsstr(name, <<"m", "s", "y", "s", "-">>)
       \/ wcsstr(name, <<"c", "y", "g", "w", "i", "n", "-">>)
    /\ wcsstr(name, <<"-", "p", "t", "y">>)

\* A variant of the conversion of the result of GetConsoleMode that negates it.
ConsoleModeStatus_Inverted(r) == IF r # 0 THEN 0 ELSE 1

\* A variant of the conversion of the result of GetConsoleMode that keeps it.
ConsoleModeStatus_Raw(r) == r

\* GetConsoleMode(h, &mode) != 0
ConsoleModeStatus(r) == IF r # 0 THEN 1 ELSE 0

\* The values rc can hold before it is assigned: jint rc;
UninitRc == {-1, 0, 1, 2}

InitIsatty ==
    /\ ThreadsOff("Termios")
    /\ MarshalOff
    /\ fn = [method |-> "isatty", h |-> NULL, t |-> 0]
    /\ fpc = At("idle", 0)
    /\ lparg = <<>>
    /\ rc = 0
    /\ events = <<>>
    /\ hModuleNtDll = 0
    /\ NtQueryObject = 0
    /\ loadCalls = [LoadLibraryW |-> 0, GetProcAddress |-> 0]
    /\ kernel = NoPty

\* HANDLE h = (HANDLE) _get_osfhandle(arg0);
\* DWORD t = h != NULL ? GetFileType(h) : 0;
IsattyEnter ==
    /\ fpc.at \in {"idle", "returned"}
    /\ \E h \in Handles, t \in FileTypes :
         /\ h = NULL => t = 0
         /\ fn' = [method |-> "isatty", h |-> h, t |-> t]
    /\ rc' \in UninitRc
    /\ events' = <<>>
    /\ fpc' = At("type", 0)
    /\ UNCHANGED <<cvars, mvars, ivars, lparg>>

\* if (h != NULL && t == FILE_TYPE_CHAR) rc = GetConsoleMode(h, &mode) != 0;
IsattyConsoleMode ==
    /\ fpc.at = "type"
    /\ fn.h # NULL /\ fn.t = FILE_TYPE_CHAR
    /\ \E r \in ConsoleModeResults :
         /\ rc' = ConsoleModeStatus(r)
         /\ events' = Append(events, [ev |-> "GetConsoleMode", result |-> r])
    /\ fpc' = At("return", 0)
    /\ UNCHANGED <<cvars, mvars, ivars, fn, lparg>>

\* else { if (hModuleNtDll == 0) hModuleNtDll = LoadLibraryW(L"ntdll.dll");
\*        if (hModuleNtDll == 0) rc = 0; else ...
IsattyLoadLibrary ==
    /\ fpc.at = "type"
    /\ ~(fn.h # NULL /\ fn.t = FILE_TYPE_CHAR)
    /\ IF hModuleNtDll = 0
         THEN \E r \in ModuleHandles :
                /\ loadCalls.LoadLibraryW < MaxLoadCalls
                /\ hModuleNtDll' = r
                /\ loadCalls' = [loadCalls EXCEPT !.LoadLibraryW = @ + 1]
                /\ events' = Append(events, [ev |-> "LoadLibraryW", result |-> r])
         ELSE UNCHANGED <<hModuleNtDll, loadCalls, events>>
    /\ IF hModuleNtDll' = 0
         THEN rc' = 0 /\ fpc' = At("return", 0)
         ELSE UNCHANGED rc /\ fpc' = At("proc", 0)
    /\ UNCHANGED <<cvars, mvars, NtQueryObject, kernel, fn, lparg>>

\* if (NtQueryObject == 0) NtQueryObject = GetProcAddress(hModuleNtDll, "NtQueryObject");
\* if (NtQueryObject == 0) rc = 0; else ...
IsattyGetProcAddress ==
    /\ fpc.at = "proc"
    /\ IF NtQueryObject = 0
         THEN \E r \in ProcAddresses :
                /\ loadCalls.GetProcAddress < MaxLoadCalls
                /\ NtQueryObject' = r
                /\ loadCalls' = [loadCalls EXCEPT !.GetProcAddress = @ + 1]
                /\ events' = Append(events, [ev |-> "GetProcAddress", result |-> r])
         ELSE UNCHANGED <<NtQueryObject, loadCalls, events>>
    /\ IF NtQueryObject' = 0
         THEN rc' = 0 /\ fpc' = At("return", 0)
         ELSE UNCHANGED rc /\ fpc' = At("query", 0)
    /\ UNCHANGED <<cvars, mvars, hModuleNtDll, kernel, fn, lparg>>

\* else if (NtQueryObject(h, ObjectNameInformation, buffer, ...) != 0) rc = 0;
\* else { name = nameinfo->Name.Buffer;
\*        if (name == NULL) rc = 0;
\*        else { name[nameinfo->Name.Length / 2] = 0; rc = <test of name>; } }
IsattyQueryName ==
    /\ fpc.at = "query"
    /\ \E status \in NtStatuses, info \in NameInfos :
         /\ events' = Append(events, [ev |-> "NtQueryObject", status |-> status,
                                      nameinfo |-> info])
         /\ rc' = IF status # 0 THEN 0
                  ELSE IF info.Buffer = NULL THEN 0
                  ELSE IF IsPtyName(Terminated(info)) THEN 1 ELSE 0
    /\ fpc' = At("return", 0)
    /\ UNCHANGED <<cvars, mvars, ivars, fn, lparg>>

\* return rc;
IsattyReturn ==
    /\ fpc.at = "return"
    /\ fn.method = "isatty"
    /\ fpc' = At("returned", 0)
    /\ events' = Append(events, [ev |-> "return", status |-> rc])
    /\ UNCHANGED <<cvars, mvars, ivars, fn, lparg, rc>>

NextIsatty ==
    \/ IsattyEnter
    \/ IsattyConsoleMode
    \/ IsattyLoadLibrary
    \/ IsattyGetProcAddress
    \/ IsattyQueryName
    \/ IsattyReturn

SpecIsatty == InitIsatty /\ [][NextIsatty]_vars

\* The name isatty has tested, once NtQueryObject has given one.
QueriedName == WString(Terminated(EventsOf({"NtQueryObject"})[1].nameinfo))

NameQueried ==
    /\ EventsOf({"NtQueryObject"}) # <<>>
    /\ EventsOf({"NtQueryObject"})[1].status = 0
    /\ EventsOf({"NtQueryObject"})[1].nameinfo.Buffer # NULL

(***************************************************************************)
(* newFileDescriptor and newRedirectPipe of jlinenative.c.  Each looks up  *)
(* a class, its constructor ()V and its field fd, constructs an object     *)
(* and stores its argument into the field; JNI_OnLoad only returns the     *)
(* JNI version.  events is kept over the calls of the process.             *)
(***************************************************************************)
DescriptorMethods == {"newFileDescriptor", "newRedirectPipe"}

\* FindClass(env, "...")
ClassNameOf(m) ==
    IF m = "newFileDescriptor" THEN "java/io/FileDescriptor"
    ELSE "java/lang/ProcessBuilder$RedirectPipeImpl"

\* GetFieldID(env, class, "fd", "...")
FieldSignatureOf(m) ==
    IF m = "newFileDescriptor" THEN "I" ELSE "Ljava/io/FileDescriptor;"

\* The argument fd: a raw descriptor, or a reference to a managed one.
FdArguments == {-1, 0, 1, 2}

\* What FindClass, GetMethodID and GetFieldID return: NULL when not found.
LookupResults == {NULL, 1}

\* What NewObject returns: the object as its constructor left it (no store
\* into fd made through JNI yet), or NULL when it cannot be allocated.
NewObjects(m) == { NullRef, [class |-> ClassNameOf(m), fdStores |-> <<>>] }

\* A variant of the test of a lookup's result that goes on whatever it is.
AfterLookup_Untested(r, next) == At(next, 0)

\* if (<result> == NULL) return NULL;
AfterLookup(r, next) == IF r = NULL THEN At("returnNULL", 0) ELSE At(next, 0)

\* The calls made by the process so far.
CallsMade == Len(SelectSeq(events, LAMBDA e : e.ev = "call"))

InitDescriptor ==
    /\ ThreadsOff("Termios")
    /\ MarshalOff
    /\ fn = [method |-> "JNI_OnLoad", fd |-> 0, class |-> NULL, const |-> NULL,
             field_fd |-> NULL, ret |-> NullRef]
    /\ fpc = At("returned", 0)
    /\ lparg = <<>>
    /\ rc = 0
    /\ events = <<>>
    /\ hModuleNtDll = 0
    /\ NtQueryObject = 0
    /\ loadCalls = [LoadLibraryW |-> 0, GetProcAddress |-> 0]
    /\ kernel = NoPty

\* JLineLibrary_NATIVE(newFileDescriptor)(env, that, fd) is entered.
DescriptorEnter ==
    /\ fpc.at = "returned"
    /\ CallsMade < MaxDescriptorCalls
    /\ \E m \in DescriptorMethods, fd \in FdArguments :
         /\ fn' = [method |-> m, fd |-> fd, class |-> NULL, const |-> NULL,
                   field_fd |-> NULL, ret |-> NullRef]
         /\ events' = Append(events, [ev |-> "call", method |-> m, fd |-> fd])
    /\ fpc' = At("FindClass", 0)
    /\ UNCHANGED <<cvars, mvars, ivars, lparg, rc>>

\* class_fdesc = FindClass(env, "..."); if (class_fdesc == NULL) return NULL;
DescriptorFindClass ==
    /\ fpc.at = "FindClass"
    /\ \E r \in LookupResults :
         /\ fn' = [fn EXCEPT !.class = r]
         /\ events' = Append(events, [ev |-> "FindClass", name |-> ClassNameOf(fn.method),
                                      result |-> r])
         /\ fpc' = AfterLookup(r, "GetMethodID")
    /\ UNCHANGED <<cvars, mvars, ivars, lparg, rc>>

\* const_fdesc = GetMethodID(env, class_fdesc, "<init>", "()V");
\* if (const_fdesc == NULL) return NULL;
DescriptorGetMethodID ==
    /\ fpc.at = "GetMethodID"
    /\ \E r \in LookupResults :
         /\ fn' = [fn EXCEPT !.const = r]
         /\ events' = Append(events, [ev |-> "GetMethodID", name |-> ClassNameOf(fn.method),
                                      result |-> r])
         /\ fpc' = AfterLookup(r, "NewObject")
    /\ UNCHANGED <<cvars, mvars, ivars, lparg, rc>>

\* ret = NewObject(env, class_fdesc, const_fdesc);
DescriptorNewObject ==
    /\ fpc.at = "NewObject"
    /\ \E o \in NewObjects(fn.method) :
         /\ fn' = [fn EXCEPT !.ret = o]
         /\ events' = Append(events, [ev |-> "NewObject", result |-> o])
    /\ fpc' = At("GetFieldID", 0)
    /\ UNCHANGED <<cvars, mvars, ivars, lparg, rc>>

\* field_fd = GetFieldID(env, class_fdesc, "fd", "...");
\* if (field_fd == NULL) return NULL;
DescriptorGetFieldID ==
    /\ fpc.at = "GetFieldID"
    /\ \E r \in LookupResults :
         /\ fn' = [fn EXCEPT !.field_fd = r]
         /\ events' = Append(events, [ev |-> "GetFieldID", name |-> ClassNameOf(fn.method),
                                      sig |-> FieldSignatureOf(fn.method), result |-> r])
         /\ fpc' = AfterLookup(r, "SetField")
    /\ UNCHANGED <<cvars, mvars, ivars, lparg, rc>>

\* SetIntField(env, ret, field_fd, fd);  /  SetObjectField(env, ret, field_fd, fd);
\* with ret == NULL the store goes through a null reference.
DescriptorSetField ==
    /\ fpc.at = "SetField"
    /\ IF fn.ret = NullRef
         THEN /\ fpc' = At("faulted", 0)
              /\ events' = Append(events, [ev |-> "fault"])
              /\ UNCHANGED fn
         ELSE /\ fpc' = At("returnRet", 0)
              /\ fn' = [fn EXCEPT !.ret.fdStores = Append(@, fn.fd)]
              /\ events' = Append(events, [ev |-> "SetField", value |-> fn.fd])
    /\ UNCHANGED <<cvars, mvars, ivars, lparg, rc>>

\* return NULL;  /  return ret;
DescriptorReturn ==
    /\ fpc.at \in {"returnNULL", "returnRet"}
    /\ events' = Append(events, [ev |-> "return",
                                 value |-> IF fpc.at = "returnRet" THEN fn.ret ELSE NullRef])
    /\ fpc' = At("returned", 0)
    /\ UNCHANGED <<cvars, mvars, ivars, fn, lparg, rc>>

NextDescriptor ==
    \/ DescriptorEnter
    \/ DescriptorFindClass
    \/ DescriptorGetMethodID
    \/ DescriptorNewObject
    \/ DescriptorGetFieldID
    \/ DescriptorSetField
    \/ DescriptorReturn

SpecDescriptor == InitDescriptor /\ [][NextDescriptor]_vars

\* The events of the call under way, or of the last call made.
CurrentCall ==
    LET starts == { i \in 1..Len(events) : events[i].ev = "call" }
        first == CHOOSE i \in starts : \A j \in starts : j <= i
    IN  SubSeq(events, first, Len(events))

\* What the last call returned, once it has returned.
Returned == CurrentCall[Len(CurrentCall)].value

(***************************************************************************)
(* openpty, isatty and ioctl(WinSize) of clibrary.c, called one after the  *)
(* other by one thread, over a kernel that does what POSIX says of a       *)
(* pseudo-terminal: openpty gives the descriptors of a new master and      *)
(* slave, the slave is a terminal, TIOCSWINSZ stores a struct winsize and  *)
(* TIOCGWINSZ gives the last one stored.  obj holds the managed objects    *)
(* of the caller, native the struct winsize local of the last call.        *)
(***************************************************************************)
\* sizeof(struct winsize): four unsigned short.
WinSize_Size == 8

\* getWinSizeFields: ws_row at 0, ws_col at 2, ws_xpixel at 4, ws_ypixel at 6.
getWinSizeFields(o, img, base) ==
    LET i1 == WriteAt(img, base, LE(o.ws_row, 2))
        i2 == WriteAt(i1, base + 2, LE(o.ws_col, 2))
        i3 == WriteAt(i2, base + 4, LE(o.ws_xpixel, 2))
    IN  WriteAt(i3, base + 6, LE(o.ws_ypixel, 2))

\* A variant of setWinSizeFields that reads ws_row and ws_col swapped.
setWinSizeFields_Swapped(o, img, base) ==
    [ws_row |-> Signed(BytesAt(img, base + 2, 2)),
     ws_col |-> Signed(BytesAt(img, base, 2)),
     ws_xpixel |-> Signed(BytesAt(img, base + 4, 2)),
     ws_ypixel |-> Signed(BytesAt(img, base + 6, 2))]

\* setWinSizeFields: SetShortField(..., (jshort)lpStruct->ws_row) ...
setWinSizeFields(o, img, base) ==
    [ws_row |-> Signed(BytesAt(img, base, 2)),
     ws_col |-> Signed(BytesAt(img, base + 2, 2)),
     ws_xpixel |-> Signed(BytesAt(img, base + 4, 2)),
     ws_ypixel |-> Signed(BytesAt(img, base + 6, 2))]

\* The managed WinSize objects the calls are given.
WinSizes ==
    { [ws_row |-> 24, ws_col |-> 80, ws_xpixel |-> 0, ws_ypixel |-> 0],
      [ws_row |-> -1, ws_col |-> -32768, ws_xpixel |-> 32767, ws_ypixel |-> 1],
      [ws_row |-> 1, ws_col |-> 2, ws_xpixel |-> 3, ws_ypixel |-> 4] }

\* What struct winsize _arg2 holds before it is written.
UninitWinSize == { Fill(WinSize_Size, g) : g \in {0, 165} }

\* The descriptors the calls are given; openpty gives the two in the middle.
Descriptors == {0, 3, 4, 9}

\* The kernel after a successful openpty(..., winp).
PtyOpened(winp, pointee) ==
    [master |-> 3, slave |-> 4,
     winsize |-> IF winp = NULL THEN Fill(WinSize_Size, 0) ELSE pointee]

\* The kernel's answer to isatty(fd).
KernelIsatty(fd) == IF fd # -1 /\ fd \in {kernel.master, kernel.slave} THEN 1 ELSE 0

\* The kernel's ioctl(fd, request, argp) on struct winsize *argp: the status,
\* the kernel as it leaves it, and *argp as it leaves it.
KernelIoctl(fd, request, argp, pointee) ==
    IF fd = -1 \/ fd \notin {kernel.master, kernel.slave} \/ argp = NULL
      THEN [status |-> -1, kernel |-> kernel, pointee |-> pointee]
      ELSE IF request = "TIOCSWINSZ"
             THEN [status |-> 0, kernel |-> [kernel EXCEPT !.winsize = pointee],
                   pointee |-> pointee]
             ELSE [status |-> 0, kernel |-> kernel, pointee |-> kernel.winsize]

(***************************************************************************)
(* ttyname of clibrary.c: char s[256] = { 0 }; r = ttyname_r(arg0, s, 256);*)
(* if (!r) rc = NewStringUTF(env, s); return rc;  The result is held in    *)
(* out: NullRef, or the string made of the characters of s.                *)
(***************************************************************************)
\* A name of n characters.
NameOfLength(n) == [i \in 1..n |-> 97 + (i % 26)]

\* The names the kernel has for a terminal: /dev/pts/3, and names of 255,
\* 256 and 300 characters.
TtyNames ==
    { <<47, 100, 101, 118, 47, 112, 116, 115, 47, 51>>,
      NameOfLength(255), NameOfLength(256), NameOfLength(300) }

\* What ttyname_r(fd, buf, buflen) can do: fail with EBADF (9) or ENOTTY
\* (25), fail with ERANGE (34) when the name and its terminator do not fit
\* in buflen, or store the name and its terminator and return 0.
KernelTtynameR(image, buflen) ==
    { [r |-> e, s |-> image] : e \in {9, 25} }
      \cup { IF Len(n) + 1 <= buflen
               THEN [r |-> 0, s |-> WriteAt(image, 0, n \o <<0>>)]
               ELSE [r |-> 34, s |-> image] : n \in TtyNames }

\* The C string at s: the characters before the first 0.
CString(s) ==
    LET nuls == { i \in 1..Len(s) : s[i] = 0 }
    IN  IF nuls = {} THEN s
        ELSE SubSeq(s, 1, (CHOOSE i \in nuls : \A j \in nuls : i <= j) - 1)

\* What NewStringUTF(env, s) returns: the string, or NULL with an
\* OutOfMemoryError pending.
NewStringUTF(s) == { [chars |-> CString(s)], NullRef }

\* A variant of the test of r that makes the string whatever r is.
TtynameResult_Untested(r, str) == str

\* jstring rc = 0; ... if (!r) rc = NewStringUTF(env, s);
TtynameResult(r, str) == IF r = 0 THEN str ELSE NullRef

InitPty ==
    /\ ThreadsOff("WinSize")
    /\ plat = "linux"
    /\ obj = [amaster |-> <<0>>, aslave |-> <<0>>, ws |-> NullRef]
    /\ native \in UninitWinSize
    /\ out = NullRef
    /\ mpc = "off"
    /\ jexc = {}
    /\ cachedKinds = {}
    /\ fn = [method |-> "none"]
    /\ fpc = At("returned", 0)
    /\ lparg = <<>>
    /\ rc = 0
    /\ events = <<>>
    /\ hModuleNtDll = 0
    /\ NtQueryObject = 0
    /\ loadCalls = [LoadLibraryW |-> 0, GetProcAddress |-> 0]
    /\ kernel = NoPty

\* CLibrary_NATIVE(openpty)(amaster, aslave, NULL, NULL, winsize) with both
\* arrays pinned: the kernel fills *lparg0 and *lparg1, and the release
\* with mode 0 copies them to the arrays.
PtyOpenpty ==
    /\ kernel = NoPty
    /\ \E ws \in WinSizes \cup {NullRef}, ok \in BOOLEAN, g \in UninitWinSize :
         LET _arg4 == IF ws # NullRef THEN getWinSizeFields(ws, g, 0) ELSE g
             lparg4 == IF ws # NullRef THEN 1 ELSE NULL
         IN  /\ fn' = [method |-> "openpty", ws |-> ws]
             /\ native' = _arg4
             /\ cachedKinds' = IF ws # NullRef THEN cachedKinds \cup {"WinSize"}
                               ELSE cachedKinds
             /\ IF ok
                  THEN /\ kernel' = PtyOpened(lparg4, _arg4)
                       /\ obj' = [obj EXCEPT !.amaster = <<kernel'.master>>,
                                             !.aslave = <<kernel'.slave>>, !.ws = ws]
                       /\ rc' = 0
                  ELSE /\ UNCHANGED kernel
                       /\ obj' = [obj EXCEPT !.ws = ws]
                       /\ rc' = -1
    /\ UNCHANGED <<cvars, plat, out, mpc, jexc, fpc, lparg, events,
                   hModuleNtDll, NtQueryObject, loadCalls>>

\* CLibrary_NATIVE(isatty)(arg0): rc = (jint)isatty(arg0);
PtyIsatty ==
    /\ \E fd \in Descriptors :
         /\ fn' = [method |-> "isatty", fd |-> fd]
         /\ rc' = KernelIsatty(fd)
    /\ UNCHANGED <<cvars, mvars, ivars, fpc, lparg, events>>

\* CLibrary_NATIVE(ioctl)(arg0, arg1, arg2) with a WinSize arg2:
\* getWinSizeFields into _arg2, ioctl, setWinSizeFields from _arg2.
PtyIoctl ==
    /\ \E fd \in Descriptors, request \in {"TIOCSWINSZ", "TIOCGWINSZ"},
          ws \in WinSizes \cup {NullRef}, g \in UninitWinSize :
         LET _arg2 == IF ws # NullRef THEN getWinSizeFields(ws, g, 0) ELSE g
             lparg2 == IF ws # NullRef THEN 1 ELSE NULL
             os == KernelIoctl(fd, request, lparg2, _arg2)
         IN  /\ fn' = [method |-> "ioctl", fd |-> fd, request |-> request, ws |-> ws]
             /\ cachedKinds' = IF ws # NullRef THEN cachedKinds \cup {"WinSize"}
                               ELSE cachedKinds
             /\ kernel' = os.kernel
             /\ native' = os.pointee
             /\ rc' = JintOf(os.status)
             /\ obj' = [obj EXCEPT !.ws = IF ws # NullRef
                                            THEN setWinSizeFields(ws, os.pointee, 0)
                                            ELSE NullRef]
             /\ events' = IF request = "TIOCSWINSZ" /\ os.status = 0
                            THEN << [ev |-> "TIOCSWINSZ", ws |-> ws] >>
                            ELSE events
    /\ UNCHANGED <<cvars, plat, out, mpc, jexc, fpc, lparg,
                   hModuleNtDll, NtQueryObject, loadCalls>>

PtyTtyname ==
    /\ \E fd \in Descriptors, os \in KernelTtynameR(Fill(256, 0), 256) :
         \E str \in NewStringUTF(os.s) :
           /\ fn' = [method |-> "ttyname", fd |-> fd, r |-> os.r, s |-> os.s]
           /\ out' = TtynameResult(os.r, str)
           /\ jexc' = IF os.r = 0 /\ str = NullRef THEN {"ttyname"} ELSE {}
    /\ UNCHANGED <<cvars, ivars, plat, obj, native, mpc, cachedKinds, fpc, lparg,
                   rc, events>>

NextPty ==
    \/ PtyOpenpty
    \/ PtyIsatty
    \/ PtyIoctl
    \/ PtyTtyname

SpecPty == InitPty /\ [][NextPty]_vars

(***************************************************************************)
(* INPUT_RECORD.memmove of kernel32.c: memmove(lparg0, arg1, arg2) into    *)
(* the local INPUT_RECORD _arg0 (lparg0 is NULL when arg0 is), then        *)
(* setINPUT_RECORDFields(env, arg0, lparg0).  out is arg0, native is       *)
(* _arg0, fn holds the bytes at arg1 and arg2.  A copy of more than        *)
(* sizeof(INPUT_RECORD) bytes writes what follows _arg0 on the stack;      *)
(* what the call does after that is not defined.                           *)
(***************************************************************************)
\* The values of arg2 (all fit size_t unchanged).
MemmoveLengths == {0, 4, 20, 21, 24}

\* The bytes at the address arg1.
MemmoveSources == { [i \in 1..24 |-> i], [i \in 1..24 |-> 255 - i] }

\* memmove(dest, src, n) with dest = &_arg0: the bytes of _arg0 after it, and
\* the number of bytes it writes past the end of _arg0.
MemmoveInto(image, src, n) ==
    [image |-> SubSeq(WriteAt(image, 0, SubSeq(src, 1, n)), 1, Len(image)),
     outside |-> IF n > Len(image) THEN n - Len(image) ELSE 0]

InitMemmove ==
    /\ ThreadsOff("INPUT_RECORD")
    /\ plat = "windows"
    /\ obj = NULL
    /\ native \in UninitInputRecord
    /\ out \in TargetRecords \cup {NullRef}
    /\ mpc = "off"
    /\ jexc = {}
    /\ cachedKinds = {}
    /\ fn \in [method : {"memmove"}, src : MemmoveSources, n : MemmoveLengths]
    /\ fpc = At("memmove", 0)
    /\ lparg = [arg0 |-> NULL]
    /\ rc = 0
    /\ events = <<>>
    /\ hModuleNtDll = 0
    /\ NtQueryObject = 0
    /\ loadCalls = [LoadLibraryW |-> 0, GetProcAddress |-> 0]
    /\ kernel = NoPty

\* if (arg0) if ((lparg0 = &_arg0) == NULL) goto fail;
\* memmove((void *)lparg0, (const void *)(intptr_t)arg1, (size_t)arg2);
MemmoveCopy ==
    /\ fpc.at = "memmove"
    /\ IF out # NullRef
         THEN LET m == MemmoveInto(native, fn.src, fn.n) IN
                /\ lparg' = [arg0 |-> 1]
                /\ native' = m.image
                /\ events' = Append(events, [ev |-> "memmove", dest |-> 1,
                                             copied |-> fn.n, outside |-> m.outside])
                /\ IF m.outside > 0
                     THEN fpc' \in {At("fail", 0), At("faulted", 0)}
                     ELSE fpc' = At("fail", 0)
         ELSE /\ UNCHANGED <<lparg, native>>
              /\ events' = Append(events, [ev |-> "memmove", dest |-> NULL,
                                           copied |-> fn.n, outside |-> fn.n])
              /\ fpc' = IF fn.n > 0 THEN At("faulted", 0) ELSE At("fail", 0)
    /\ UNCHANGED <<cvars, ivars, plat, obj, out, mpc, jexc, cachedKinds, fn, rc>>

\* fail: if (arg0 && lparg0) setINPUT_RECORDFields(env, arg0, lparg0);
MemmoveWriteBack ==
    /\ fpc.at = "fail"
    /\ IF out # NullRef /\ lparg.arg0 # NULL
         THEN /\ out' = INPUT_RECORD_Object(out, native)
              /\ cachedKinds' = cachedKinds \cup KindsOf(out)
              /\ events' = Append(events, [ev |-> "writeback"])
         ELSE UNCHANGED <<out, cachedKinds, events>>
    /\ fpc' = At("returned", 0)
    /\ UNCHANGED <<cvars, ivars, plat, obj, native, mpc, jexc, fn, lparg, rc>>

NextMemmove ==
    \/ MemmoveCopy
    \/ MemmoveWriteBack

SpecMemmove == InitMemmove /\ [][NextMemmove]_vars

(***************************************************************************)
(* The structures made of 16-bit members only: struct winsize (clibrary.c),*)
(* COORD and SMALL_RECT (kernel32.c).  getXFields followed by setXFields,  *)
(* by one thread, with one field of the managed object running over every  *)
(* value of a short.                                                       *)
(***************************************************************************)
ShortKinds == {"WinSize", "COORD", "SMALL_RECT"}

\* The short fields of the managed class, in the order of the native members.
ShortFields(k) ==
    CASE k = "WinSize" -> <<"ws_row", "ws_col", "ws_xpixel", "ws_ypixel">>
      [] k = "COORD" -> <<"x", "y">>
      [] k = "SMALL_RECT" -> <<"left", "top", "right", "bottom">>

\* The values of a managed short.
Jshorts == -32768..32767

\* The managed objects marshalled: one field holds any short, the others
\* hold one value each, no two the same.
ShortObjects(k) ==
    LET fields == ShortFields(k)
        rest == <<-2, 3, 300, -32768>>
    IN  { [f \in { fields[i] : i \in 1..Len(fields) } |->
             IF f = fields[j] THEN v
             ELSE rest[CHOOSE i \in 1..Len(fields) : fields[i] = f]] :
          j \in 1..Len(fields), v \in Jshorts }

\* The managed object setXFields is given.
ShortTarget(k) ==
    LET fields == ShortFields(k)
    IN  [f \in { fields[i] : i \in 1..Len(fields) } |-> 9]

\* getXFields(env, lpObject, lpStruct) and setXFields(env, lpObject, lpStruct)
\* of a kind.
ShortsImage(k, o, img) ==
    CASE k = "WinSize" -> getWinSizeFields(o, img, 0)
      [] k = "COORD" -> getCOORDFields(o, img, 0)
      [] k = "SMALL_RECT" -> getSMALL_RECTFields(o, img, 0)

ShortsObject(k, o, img) ==
    CASE k = "WinSize" -> setWinSizeFields(o, img, 0)
      [] k = "COORD" -> setCOORDFields(o, img, 0)
      [] k = "SMALL_RECT" -> setSMALL_RECTFields(o, img, 0)

InitShorts ==
    /\ FacadeOff
    /\ \E k \in ShortKinds :
         /\ ThreadsOff(k)
         /\ obj \in ShortObjects(k)
         /\ native \in { Fill(2 * Len(ShortFields(k)), g) : g \in {165} }
         /\ out = ShortTarget(k)
    /\ plat = IF kind = "WinSize" THEN "linux" ELSE "windows"
    /\ mpc = "start"
    /\ jexc = {}
    /\ cachedKinds = {}

\* getXFields(env, lpObject, lpStruct), lpObject = obj, lpStruct = &native.
getShortFields ==
    /\ mpc = "start"
    /\ kind \in ShortKinds
    /\ cachedKinds' = cachedKinds \cup {kind}
    /\ native' = ShortsImage(kind, obj, native)
    /\ mpc' = "native"
    /\ UNCHANGED <<fvars, cvars, plat, obj, out, jexc>>

\* setXFields(env, lpObject, lpStruct), lpObject = out, lpStruct = &native.
setShortFields ==
    /\ mpc = "native"
    /\ kind \in ShortKinds
    /\ cachedKinds' = cachedKinds \cup {kind}
    /\ out' = ShortsObject(kind, out, native)
    /\ mpc' = "done"
    /\ UNCHANGED <<fvars, cvars, plat, obj, native, jexc>>

NextShorts ==
    \/ getShortFields
    \/ setShortFields

SpecShorts == InitShorts /\ [][NextShorts]_vars

(***************************************************************************)
(* Properties of the field caches, checked under Spec.                     *)
(***************************************************************************)

\* C1: whenever the cached flag of a kind is set in shared memory, a store to
\* every accessor member of that kind's cache has already reached memory; and
\* a thread that reads the flag as set finds every accessor written (in
\* memory, or by itself).
C1_FlagSetOnlyAfterAccessors ==
    /\ mem["cached"] # 0 => FieldNames(kind) \subseteq stored
    /\ \A t \in Threads :
          CacheHit(t) => \A f \in FieldNames(kind) : f \in stored \/ f \in DOMAIN buf[t]

\* A thread that never resolved reads the flag another thread set and is about
\* to use the accessors.
C1_Witness ==
    \E t \in Threads : pc[t] = "marshal" /\ startedSet[t] /\ nres[t] = 0

\* C2 as stated: once the cached flag is set in memory no thread executes a
\* store to the cache (its store buffer gains no entry).
C2_NoWriteAfterFlagSet ==
    [][mem["cached"] # 0 =>
          \A t \in Threads : DOMAIN buf'[t] \subseteq DOMAIN buf[t]]_vars

\* C2 as amended: a thread stores to the cache only in a call that began with
\* the flag unset and only if it has not completed a resolution before; so a
\* call that begins after the flag is set writes nothing, and each thread
\* writes the cache in at most one of its calls.
C2_WritesOnlyByCallsBegunUnset ==
    [][\A t \in Threads :
          ~(DOMAIN buf'[t] \subseteq DOMAIN buf[t]) => (~startedSet[t] /\ nres[t] = 0)]_vars

\* A store to the cache was executed after the flag was set in memory.
C2_Witness == late

\* C3 as stated: once the cached flag is set in memory it stays set and no
\* accessor member changes its value.
C3_AccessorsFrozenOnceCached ==
    [][mem["cached"] # 0 =>
          /\ mem'["cached"] # 0
          /\ \A f \in FieldNames(kind) : mem'[f] = mem[f]]_vars

\* C4: a call that began with the cached flag set never reaches the lookup
\* statements of cacheXFields, and its body uses the accessors held in the
\* cache.
C4_NoLookupOnceCached ==
    \A t \in Threads :
       startedSet[t] =>
          /\ pc[t] \in {"entry", "check", "marshal"}
          /\ pc[t] = "marshal" => \A f \in FieldNames(kind) : AccessorsUsed(t)[f] = mem[f]

\* A getXFields/setXFields call that began with the flag set is at its body.
C4_Witness ==
    \E t \in Threads : startedSet[t] /\ pc[t] = "marshal" /\ op[t] \in {"getFields", "setFields"}

\* C5 as stated: no thread in a call waits for another thread (one of its own
\* steps is always enabled), and when every call has returned and every store
\* has reached memory the cache holds the bindings of a single sequential
\* resolution.
C5_ConcurrentResolutionConverges ==
    /\ \A t \in Threads : pc[t] # "idle" => ENABLED ThreadStep(t)
    /\ ((\A t \in Threads : pc[t] = "idle" /\ buf[t] = EmptyBuf) /\ mem["cached"] # 0)
          => \A f \in FieldNames(kind) : mem[f] = SequentialResolution(kind, f)

\* C6 as stated: a failed field lookup aborts the operation (a thread with the
\* error pending neither marks the cache resolved nor runs the marshalling
\* body), and the cache is never marked resolved with a NULL accessor.
C6_MissingFieldAborts ==
    /\ \A t \in Threads : exc[t] => pc[t] \notin {"publish", "marshal"}
    /\ mem["cached"] # 0 => \A f \in FieldNames(kind) : mem[f] # NULL

(***************************************************************************)
(* Properties of the termios marshaller, checked under SpecTermios.        *)
(***************************************************************************)

\* C7 as stated: after getTermiosFields(A) and setTermiosFields(B) with
\* control-character arrays of NCCS bytes, B equals A member for member,
\* whatever the flag and speed members of A hold (all-one included).
C7_RoundTripAllValues ==
    (/\ mpc = "done"
     /\ jexc = {}
     /\ Len(obj.c_cc) = NCCS(plat)
     /\ Len(out.c_cc) = NCCS(plat)) => out = obj

\* C7 as amended: after the round trip each flag and speed member of B holds
\* the member of A converted to the native type of the field and back, which
\* is the member of A whenever that value fits the native type; with arrays of
\* NCCS bytes the control characters of B are those of A.
C7_RoundTripWithinNativeWidth ==
    (mpc = "done" /\ jexc = {}) =>
       /\ \A f \in LongFields :
             /\ out[f] = Narrow(obj[f], NativeBytes(plat, f)) \o
                           Fill(JlongBytes - NativeBytes(plat, f), 0)
             /\ Fits(obj[f], NativeBytes(plat, f)) => out[f] = obj[f]
       /\ (Len(obj.c_cc) = NCCS(plat) /\ Len(out.c_cc) = NCCS(plat))
             => out.c_cc = obj.c_cc

\* A round trip of an object holding all-one, all-zero and a 32-bit value
\* with bit 31 set came back equal to the original.
C7_Witness ==
    /\ mpc = "done"
    /\ jexc = {}
    /\ obj.c_iflag = AllOne
    /\ obj.c_oflag = AllZero
    /\ obj.c_cflag = Bit31Set
    /\ obj.c_ispeed = AllOne
    /\ out = obj

\* C8: without a pending error, getTermiosFields leaves in the NCCS elements
\* of the native c_cc the first NCCS bytes of the managed array and the native
\* array keeps its NCCS elements; setTermiosFields leaves in the first NCCS
\* elements of the managed array the native c_cc, and the managed array keeps
\* its length and its elements from index NCCS on.  Arrays of NCCS bytes or
\* more are marshalled without error.
C8_CopiesExactlyNCCS ==
    /\ (mpc \in {"native", "done"} /\ Len(obj.c_cc) >= NCCS(plat)) =>
          /\ "getTermiosFields" \notin jexc
          /\ Len(native.c_cc) = NCCS(plat)
          /\ \A i \in 1..NCCS(plat) : native.c_cc[i] = AsCc(obj.c_cc[i])
    /\ (mpc = "done" /\ Len(out.c_cc) >= NCCS(plat)) =>
          /\ "setTermiosFields" \notin jexc
          /\ Len(out.c_cc) \in CcLengths(plat)
          /\ \A i \in 1..NCCS(plat) : out.c_cc[i] = AsJbyte(native.c_cc[i])
          /\ \A i \in (NCCS(plat) + 1)..Len(out.c_cc) : out.c_cc[i] = 85
    /\ (mpc = "done" /\ jexc = {} /\ Len(obj.c_cc) = NCCS(plat)
          /\ Len(out.c_cc) = NCCS(plat)) => out.c_cc = obj.c_cc

\* Arrays longer than NCCS went through both directions without error.
C8_Witness ==
    /\ mpc = "done"
    /\ jexc = {}
    /\ Len(obj.c_cc) = NCCS(plat) + 1
    /\ Len(out.c_cc) = NCCS(plat) + 1
    /\ out.c_cc[NCCS(plat)] = obj.c_cc[NCCS(plat)]

\* C9: getTermiosFields on a managed array shorter than NCCS returns with
\* ArrayIndexOutOfBoundsException pending and the native c_cc untouched;
\* setTermiosFields on a managed array shorter than NCCS returns with the
\* exception pending and the managed array untouched.
C9_ShortArrayOutOfRange ==
    [][/\ (mpc = "start" /\ mpc' = "native" /\ Len(obj.c_cc) < NCCS(plat)) =>
             /\ "getTermiosFields" \in jexc'
             /\ native'.c_cc = native.c_cc
       /\ (mpc = "native" /\ mpc' = "done" /\ Len(out.c_cc) < NCCS(plat)) =>
             /\ "setTermiosFields" \in jexc'
             /\ out'.c_cc = out.c_cc]_vars

\* Both directions met an array one short of NCCS.
C9_Witness ==
    /\ mpc = "done"
    /\ jexc = {"getTermiosFields", "setTermiosFields"}
    /\ Len(obj.c_cc) = NCCS(plat) - 1
    /\ Len(out.c_cc) = NCCS(plat) - 1

(***************************************************************************)
(* Properties of the INPUT_RECORD marshaller, checked under                *)
(* SpecInputRecord.                                                        *)
(***************************************************************************)

\* C10 as stated: when a managed INPUT_RECORD tagged KEY_EVENT with all five
\* sub-objects present has gone through getINPUT_RECORDFields and the result
\* through setINPUT_RECORDFields, the key sub-object of the target holds the
\* key sub-object of the original.
C10_KeyPayloadRoundTrips ==
    (/\ mpc = "done"
     /\ obj.eventType = KEY_EVENT
     /\ obj.keyEvent # NullRef
     /\ obj.mouseEvent # NullRef
     /\ obj.windowBufferSizeEvent # NullRef
     /\ obj.menuEvent # NullRef
     /\ obj.focusEvent # NullRef) => out.keyEvent = obj.keyEvent

(***************************************************************************)
(* Properties of the CONSOLE_SCREEN_BUFFER_INFO marshaller, checked under  *)
(* SpecCSBI.                                                               *)
(***************************************************************************)

\* C11: when a managed CONSOLE_SCREEN_BUFFER_INFO with every sub-object
\* present has gone through getCONSOLE_SCREEN_BUFFER_INFOFields and the
\* result through setCONSOLE_SCREEN_BUFFER_INFOFields into a target with every
\* sub-object present, the target equals the original: every scalar of every
\* sub-object and the attributes.
C11_ScreenBufferInfoRoundTrips ==
    (/\ mpc = "done"
     /\ \A f \in {"size", "cursorPosition", "window", "maximumWindowSize"} :
           obj[f] # NullRef /\ out[f] # NullRef) => out = obj

\* A fully populated object with negative and extreme 16-bit scalars has made
\* the round trip into a fully populated target.
C11_Witness ==
    /\ mpc = "done"
    /\ obj.size = [x |-> -1, y |-> 32767]
    /\ obj.cursorPosition = [x |-> 80, y |-> 25]
    /\ obj.attributes = -1
    /\ obj.window = [left |-> -32768, top |-> 1, right |-> 2, bottom |-> -3]
    /\ obj.maximumWindowSize # NullRef
    /\ out = obj

(***************************************************************************)
(* Properties of the null sub-object policy, checked under                 *)
(* SpecInputRecord.                                                        *)
(***************************************************************************)

\* C12 as stated, for the managed INPUT_RECORD: getINPUT_RECORDFields leaves
\* the bytes of the native member of every absent sub-object as they were
\* (Event.KeyEvent and Event.MouseEvent of 16 bytes, the other three of 4)
\* and still marshals EventType; setINPUT_RECORDFields leaves every absent
\* sub-object absent and still marshals eventType.
C12_AbsentSubObjectRegionKept ==
    [][/\ (mpc = "start" /\ mpc' = "native") =>
             /\ BytesAt(native', 0, 2) = LE(obj.eventType, 2)
             /\ obj.keyEvent = NullRef =>
                   BytesAt(native', KeyEventOffset, 16) = BytesAt(native, KeyEventOffset, 16)
             /\ obj.mouseEvent = NullRef =>
                   BytesAt(native', MouseEventOffset, 16) = BytesAt(native, MouseEventOffset, 16)
             /\ obj.windowBufferSizeEvent = NullRef =>
                   BytesAt(native', WindowBufferSizeEventOffset, 4)
                      = BytesAt(native, WindowBufferSizeEventOffset, 4)
             /\ obj.menuEvent = NullRef =>
                   BytesAt(native', MenuEventOffset, 4) = BytesAt(native, MenuEventOffset, 4)
             /\ obj.focusEvent = NullRef =>
                   BytesAt(native', FocusEventOffset, 4) = BytesAt(native, FocusEventOffset, 4)
       /\ (mpc = "native" /\ mpc' = "done") =>
             /\ out'.eventType = Signed(BytesAt(native, 0, 2))
             /\ \A f \in {"keyEvent", "mouseEvent", "windowBufferSizeEvent",
                          "menuEvent", "focusEvent"} :
                   out[f] = NullRef => out'[f] = NullRef]_vars

\* C13: in ioctl (WinSize and int[] forms), openpty, tcgetattr and tcsetattr,
\* when no pinning fails, a null object argument is neither marshalled,
\* pinned, released nor written back, and the system call has been issued
\* exactly once by the time the call returns, with a null native pointer in
\* the position of every null argument.
C13_AbsentArgumentPassedAsNull ==
    (fn.method \in PosixMethods /\ fpc.at = "returned" /\ fn.failing = {}) =>
        /\ \A i \in 1..Len(events) : events[i].arg \notin fn.absent
        /\ Len(EventsOf({"oscall"})) = 1
        /\ LET os == OsArguments(fn.method) IN
             \A i \in 1..Len(os) :
                 os[i].arg \in fn.absent => EventsOf({"oscall"})[1].ptrs[i] = NULL

C13_Witness ==
    /\ fn.method = "openpty"
    /\ fn.absent = {"arg0", "arg1", "arg2", "arg3", "arg4"}
    /\ fpc.at = "returned"
    /\ Len(EventsOf({"oscall"})) = 1
    /\ EventsOf({"oscall"})[1].ptrs = <<NULL, NULL, NULL, NULL, NULL>>

\* C14: SetConsoleCursorPosition, FillConsoleOutputAttribute,
\* FillConsoleOutputCharacterW and ScrollConsoleScreenBuffer called with a
\* null COORD object do not dereference a null native pointer.
C14_NullCoordDoesNotFault ==
    fn.method \in {"SetConsoleCursorPosition", "FillConsoleOutputAttribute",
                   "FillConsoleOutputCharacterW", "ScrollConsoleScreenBuffer"}
        => fpc.at # "faulted"

\* C15: when a native method returns, the resources it released are exactly
\* those it pinned, each once, in the reverse of the order of pinning; and
\* after a pinning that failed nothing more is acquired.
C15_ReleasedInReverseOfAcquired ==
    /\ fpc.at = "returned" =>
          ArgsIn(EventsOf({"release"})) = Reverse(ArgsIn(EventsOf({"pin"})))
    /\ \A i \in 1..Len(events) : \A j \in 1..Len(events) :
          (events[i].ev = "pinfailed" /\ j > i) =>
              events[j].ev \notin {"pin", "marshal", "local", "pinfailed"}

C15_Witness ==
    /\ fn.method = "openpty"
    /\ fn.absent = {}
    /\ fn.failing = {"arg2"}
    /\ fpc.at = "returned"
    /\ ArgsIn(EventsOf({"release"})) = <<"arg1", "arg0">>

\* C16: when a pinning fails in openpty or ioctl(int[]), the system call is
\* not issued and the status returned is not one a successful system call
\* returns (openpty and ioctl return 0 or more on success, -1 on failure).
C16_FailedAcquisitionStatusDistinct ==
    (fn.method \in {"openpty", "ioctl_IntArray"} /\ fpc.at = "returned"
       /\ Len(EventsOf({"pinfailed"})) > 0) =>
        /\ Len(EventsOf({"oscall"})) = 0
        /\ rc < 0

\* C17: whenever a native method has issued its OS call, the status it
\* returns is the value the OS call returned, write-back or not.
C17_StatusIsOsReturnValue ==
    (fpc.at = "returned" /\ Len(EventsOf({"oscall"})) > 0) =>
        EventsOf({"return"})[1].status = fn.osrc

C17_Witness ==
    /\ fn.method = "tcgetattr"
    /\ fn.osrc = -1
    /\ fpc.at = "returned"
    /\ EventsOf({"writeback"}) # <<>>
    /\ EventsOf({"return"})[1].status = -1

\* C18: isatty of kernel32.c assigns rc on every path: whatever the handle,
\* the file type and the outcomes of GetConsoleMode, LoadLibraryW,
\* GetProcAddress and NtQueryObject, the value it returns is 0 or 1; and it
\* is 0 when the library is not loaded, the function is not found, the name
\* query fails or the name is absent.
C18_IsattyTotal ==
    (fn.method = "isatty" /\ fpc.at \in {"return", "returned"}) =>
        /\ rc \in {0, 1}
        /\ (\E i \in 1..Len(events) :
               \/ events[i].ev \in {"LoadLibraryW", "GetProcAddress"}
                    /\ events[i].result = 0
               \/ events[i].ev = "NtQueryObject"
                    /\ (events[i].status # 0 \/ events[i].nameinfo.Buffer = NULL))
             => rc = 0

C18_Witness ==
    /\ fn.method = "isatty"
    /\ fpc.at = "returned"
    /\ fn.h = NULL
    /\ EventsOf({"NtQueryObject"}) # <<>>
    /\ EventsOf({"NtQueryObject"})[1].status = 0
    /\ EventsOf({"NtQueryObject"})[1].nameinfo.Buffer = NULL
    /\ rc = 0

\* C19: for a handle that is not a character device and whose name has been
\* queried, isatty returns 1 exactly when the name contains msys- or cygwin-
\* and, at a later position, -pty.
C19_PtyNameNeedsPrefixBeforePty ==
    (fn.method = "isatty" /\ fpc.at = "returned" /\ NameQueried) =>
        (rc = 1 <=>
           \E i \in Occurrences(QueriedName, <<"m", "s", "y", "s", "-">>)
                      \cup Occurrences(QueriedName, <<"c", "y", "g", "w", "i", "n", "-">>) :
              \E j \in Occurrences(QueriedName, <<"-", "p", "t", "y">>) : j > i)

\* C20: for a handle of type FILE_TYPE_CHAR, isatty returns 1 exactly when
\* GetConsoleMode succeeds, and calls none of LoadLibraryW, GetProcAddress
\* and NtQueryObject.
C20_CharDeviceDecidedByConsoleMode ==
    (fn.method = "isatty" /\ fpc.at = "returned" /\ fn.h # NULL
       /\ fn.t = FILE_TYPE_CHAR) =>
        /\ Len(EventsOf({"GetConsoleMode"})) = 1
        /\ rc = 1 <=> EventsOf({"GetConsoleMode"})[1].result # 0
        /\ rc \in {0, 1}
        /\ EventsOf({"LoadLibraryW", "GetProcAddress", "NtQueryObject"}) = <<>>

C20_Witness ==
    /\ fn.method = "isatty"
    /\ fpc.at = "returned"
    /\ fn.t = FILE_TYPE_CHAR
    /\ EventsOf({"GetConsoleMode"}) # <<>>
    /\ EventsOf({"GetConsoleMode"})[1].result = 0
    /\ rc = 0
    /\ hModuleNtDll = 0

\* C21: over any sequence of isatty calls of one process, LoadLibraryW for
\* ntdll.dll and GetProcAddress for NtQueryObject are each called at most
\* once, an earlier call that failed included.
C21_LoadedAtMostOnce ==
    /\ loadCalls.LoadLibraryW <= 1
    /\ loadCalls.GetProcAddress <= 1

\* C22: newFileDescriptor and newRedirectPipe return NULL, having stored
\* nothing into a field, whenever FindClass, GetMethodID or GetFieldID
\* returns NULL; when all three succeed and the object is constructed they
\* return that object, whose fd has been stored once, with the argument.
C22_NullUnlessAllLocated ==
    (fn.method \in DescriptorMethods /\ fpc.at = "returned") =>
        LET failed == \E i \in 1..Len(CurrentCall) :
                         /\ CurrentCall[i].ev \in {"FindClass", "GetMethodID", "GetFieldID"}
                         /\ CurrentCall[i].result = NULL
        IN  /\ failed => /\ Returned = NullRef
                         /\ \A i \in 1..Len(CurrentCall) : CurrentCall[i].ev # "SetField"
                         /\ fn.ret # NullRef => fn.ret.fdStores = <<>>
            /\ ~failed => /\ Returned = [class |-> ClassNameOf(fn.method),
                                         fdStores |-> <<fn.fd>>]
                          /\ Returned = fn.ret

C22_Witness ==
    /\ fn.method = "newRedirectPipe"
    /\ fpc.at = "returned"
    /\ fn.class # NULL /\ fn.const # NULL /\ fn.field_fd = NULL
    /\ fn.ret # NullRef
    /\ Returned = NullRef

\* C23: over any sequence of newFileDescriptor calls, FindClass, GetMethodID
\* and GetFieldID are each called at most once.
C23_LookupAtMostOnce ==
    \A lookup \in {"FindClass", "GetMethodID", "GetFieldID"} :
        Len(SelectSeq(events, LAMBDA e : e.ev = lookup
                                           /\ e.name = "java/io/FileDescriptor")) <= 1

\* C24: once openpty has succeeded, isatty of the slave descriptor it gave
\* is 1; and ioctl TIOCGWINSZ on the slave with a WinSize object, after any
\* sequence of ioctl TIOCSWINSZ on the pseudo-terminal, returns 0 and leaves
\* in the object the four values given to the last TIOCSWINSZ.
C24_WindowSizeLastSet ==
    /\ (kernel # NoPty /\ fn.method = "isatty" /\ fn.fd = obj.aslave[1]) => rc = 1
    /\ (kernel # NoPty /\ fn.method = "ioctl" /\ fn.request = "TIOCGWINSZ"
          /\ fn.fd = obj.aslave[1] /\ fn.ws # NullRef /\ events # <<>>) =>
           /\ rc = 0
           /\ obj.ws = events[1].ws

C24_Witness ==
    /\ kernel # NoPty
    /\ fn.method = "ioctl" /\ fn.request = "TIOCGWINSZ" /\ fn.fd = obj.aslave[1]
    /\ fn.ws = [ws_row |-> 24, ws_col |-> 80, ws_xpixel |-> 0, ws_ypixel |-> 0]
    /\ events # <<>>
    /\ obj.ws = [ws_row |-> -1, ws_col |-> -32768, ws_xpixel |-> 32767, ws_ypixel |-> 1]

\* C25: ttyname gives ttyname_r a buffer of 256 bytes, which stays 256
\* bytes; when ttyname_r returns 0 and the string can be made, it returns
\* the name as a string; when ttyname_r fails, whatever the error, it
\* returns NULL with no exception pending.
C25_NameOrNull ==
    fn.method = "ttyname" =>
        /\ Len(fn.s) = 256
        /\ (fn.r = 0 /\ jexc = {}) => /\ out # NullRef
                                      /\ out.chars = CString(fn.s)
                                      /\ out.chars \in TtyNames
                                      /\ Len(out.chars) < 256
        /\ fn.r # 0 => (out = NullRef /\ jexc = {})

C25_Witness ==
    /\ fn.method = "ttyname"
    /\ fn.r = 34
    /\ out = NullRef
    /\ jexc = {}

\* C26: tcgetattr, ioctl with a WinSize and GetConsoleScreenBufferInfo,
\* given an object that is not null, have written the native structure back
\* into it, once, by the time they return, whatever the OS call returned.
C26_WriteBackOnEveryPath ==
    (fn.method \in {"tcgetattr", "ioctl_WinSize", "GetConsoleScreenBufferInfo"}
       /\ fpc.at = "returned" /\ fn.absent = {}) =>
        /\ Len(EventsOf({"oscall"})) = 1
        /\ Len(EventsOf({"writeback"})) = 1
        /\ EventsOf({"writeback"})[1].arg \in ArgsOf(fn.method)

C26_Witness ==
    /\ fn.method = "GetConsoleScreenBufferInfo"
    /\ fn.absent = {}
    /\ fn.osrc = 0
    /\ fpc.at = "returned"
    /\ rc = 0
    /\ EventsOf({"local", "oscall", "writeback"}) # <<>>
    /\ ArgsIn(EventsOf({"local", "writeback"})) = <<"arg1", "arg1">>

\* C28: nothing is written back into the Termios of tcsetattr, the Termios
\* and WinSize of openpty, the COORD of SetConsoleCursorPosition and of
\* FillConsoleOutputAttribute / CharacterW, and the SMALL_RECT, COORD and
\* CHAR_INFO of ScrollConsoleScreenBuffer, whatever the OS call returns;
\* WriteConsoleW releases its characters with JNI_ABORT (nothing copied
\* back) and its count array with mode 0.
C28_InputObjectsNotWritten ==
    /\ \A i \in 1..Len(events) :
          (/\ fn.method \in {"tcsetattr", "openpty", "SetConsoleCursorPosition",
                              "FillConsoleOutputAttribute", "FillConsoleOutputCharacterW",
                              "ScrollConsoleScreenBuffer", "WriteConsoleW"}
           /\ events[i].ev \in {"writeback", "release"})
             => /\ events[i].ev = "release"
                /\ events[i].arg \in PinnedArgsOf(fn.method)
    /\ (fn.method = "WriteConsoleW" /\ fpc.at = "returned") =>
          \A i \in 1..Len(events) :
             events[i].ev = "release" =>
                events[i].mode = (IF events[i].arg = "arg1" THEN "JNI_ABORT" ELSE "0")

C28_Witness ==
    /\ fn.method = "WriteConsoleW"
    /\ fn.absent = {} /\ fn.failing = {}
    /\ fn.osrc = 0
    /\ fpc.at = "returned"
    /\ EventsOf({"release"}) = << [ev |-> "release", arg |-> "arg3", mode |-> "0"],
                                  [ev |-> "release", arg |-> "arg1", mode |-> "JNI_ABORT"] >>

\* C27: INPUT_RECORD.memmove writes no byte outside its local INPUT_RECORD,
\* whatever the length it is given, and copies nothing to a null
\* destination when its managed record is null.
C27_CopyStaysInLocalRecord ==
    \A i \in 1..Len(events) :
        events[i].ev = "memmove" =>
            /\ events[i].outside = 0
            /\ events[i].dest = NULL => events[i].copied = 0

\* C29: for WinSize, COORD and SMALL_RECT and every value of a short in a
\* field, each native member holds the 16-bit pattern of its own managed
\* field and of no other, and the object marshalled back holds in every
\* field the value marshalled.
C29_ShortsRoundTripIndependently ==
    /\ (kind \in ShortKinds /\ mpc \in {"native", "done"}) =>
          /\ Len(native) = 2 * Len(ShortFields(kind))
          /\ \A i \in 1..Len(ShortFields(kind)) :
                native[2 * i - 1] + 256 * native[2 * i]
                   = obj[ShortFields(kind)[i]] % 65536
    /\ (kind \in ShortKinds /\ mpc = "done") => out = obj

C29_Witness ==
    /\ kind = "SMALL_RECT"
    /\ mpc = "done"
    /\ obj.right = -32768
    /\ out = obj
    /\ native[5] = 0 /\ native[6] = 128

====
